---- MODULE Spec2Model ----
(***************************************************************************)
(* A model of echovault's memory service (service.Service), its storage    *)
(* engine (db.DB over SQLite + FTS5 + sqlite-vec), the redaction pipeline  *)
(* and the session-file emitter.                                           *)
(*                                                                         *)
(* Text is a sequence of tokens.  A token stands for one whitespace-free   *)
(* run of characters of the Go string; the tokens that matter to the code  *)
(* (redaction tags, credential shapes, the replacement literal, blanks)    *)
(* are named below.                                                        *)
(***************************************************************************)
EXTENDS Integers, Sequences, FiniteSets, Bags, TLC

\* ------------------------------------------------------------------------
\* Bounds of the model
\* ------------------------------------------------------------------------
\* Number of rows ever inserted into `memories` (AUTOINCREMENT never reuses).
MaxRowid == 3
\* Largest value of updated_count the model follows.
MaxUpdated == 1
\* "### ..." sections the vault can hold.
MaxSections == 3
\* Rows ever inserted while the vector life cycle is followed.
MaxVecRows == 2
\* Pieces a text handed to Redact is put together from.
MaxPieces == 3
\* Last UTC day the clock reaches where it runs.
MaxDay == 1
\* Longest tag list handed to mergeTags on its own.
MaxTags == 2
\* Most pieces a title is put together from.
MaxTitlePieces == 4
\* Most calls the tasks make between them.
MaxCalls == 3

\* Largest limit and row count handed to clamp.
MaxClampArg == 10

\* ------------------------------------------------------------------------
\* Tokens
\* ------------------------------------------------------------------------
OPEN == "<redacted>"
CLOSE == "</redacted>"
REDACTED == "[REDACTED]"
SECRET == "sk_live_abc"
PWD == "password="
WS == " "

\* The .memoryignore file of the memory home (layer 3): one literal
\* pattern per line.
MemoryIgnore == <<"acme">>

\* strings.ToLower / the unicode61 tokenizer's case folding.
Lower(t) ==
  CASE t = "Make" -> "make"
    [] t = "Build" -> "build"
    [] t = "Ops" -> "ops"
    [] t = REDACTED -> "[redacted]"
    [] OTHER -> t

\* The index token the unicode61 tokenizer produces for a text token
\* (case folded, punctuation dropped).
FtsToken(t) ==
  CASE t = REDACTED -> "redacted"
    [] t = OPEN -> "redacted"
    [] t = CLOSE -> "redacted"
    [] t = PWD -> "password"
    [] OTHER -> Lower(t)

\* Pairs (q, t) with q a proper prefix of the index token t.
ProperPrefix == {<<"make", "makefile">>, <<"sk", "sk_live_abc">>}

\* FTS5 prefix query "q"*: q matches index token t.
PrefixMatch(q, t) == q = t \/ <<q, t>> \in ProperPrefix

\* ------------------------------------------------------------------------
\* Sequence helpers
\* ------------------------------------------------------------------------
RECURSIVE SeqFilter(_, _)
SeqFilter(s, keep) ==
  IF s = <<>> THEN <<>>
  ELSE IF Head(s) \in keep THEN <<Head(s)>> \o SeqFilter(Tail(s), keep)
       ELSE SeqFilter(Tail(s), keep)

RECURSIVE SeqDrop(_, _)
SeqDrop(s, drop) ==
  IF s = <<>> THEN <<>>
  ELSE IF Head(s) \in drop THEN SeqDrop(Tail(s), drop)
       ELSE <<Head(s)>> \o SeqDrop(Tail(s), drop)

Range(s) == {s[i] : i \in 1..Len(s)}

Min2(a, b) == IF a < b THEN a ELSE b

\* s[:n]
Take(s, n) == SubSeq(s, 1, Min2(n, Len(s)))

\* Smallest index >= from whose element is x, 0 when there is none.
IndexFrom(s, x, from) ==
  LET I == {i \in from..Len(s) : s[i] = x}
  IN IF I = {} THEN 0 ELSE CHOOSE i \in I : \A j \in I : i <= j

\* ------------------------------------------------------------------------
\* Redaction (redaction.Redact)
\* ------------------------------------------------------------------------
\* One redactedTagRe.ReplaceAllString pass: every leftmost, minimal
\* <redacted>...</redacted> pair becomes [REDACTED].
RECURSIVE TagPass(_)
TagPass(s) ==
  LET i == IndexFrom(s, OPEN, 1)
      j == IF i = 0 THEN 0 ELSE IndexFrom(s, CLOSE, i + 1)
  IN IF i = 0 \/ j = 0 THEN s
     ELSE SubSeq(s, 1, i - 1) \o <<REDACTED>> \o TagPass(SubSeq(s, j + 1, Len(s)))

\* Layer 1 loop: repeat the pass until the text is stable.
RECURSIVE TagLoop(_)
TagLoop(s) ==
  LET next == TagPass(s)
  IN IF next = s THEN s ELSE TagLoop(next)

\* sk_live_... and the other credential shapes: the token is replaced.
\* password=...: the pattern `password\s*[:=]\s*["']?.+` takes the rest of
\* the line, and needs at least one character after the sign.
RECURSIVE BuiltinPass(_)
BuiltinPass(s) ==
  IF s = <<>> THEN <<>>
  ELSE IF Head(s) = SECRET THEN <<REDACTED>> \o BuiltinPass(Tail(s))
  ELSE IF Head(s) = PWD /\ Tail(s) # <<>> THEN <<REDACTED>>
  ELSE <<Head(s)>> \o BuiltinPass(Tail(s))

RECURSIVE ExtraPass(_, _)
ExtraPass(s, patterns) ==
  IF s = <<>> THEN <<>>
  ELSE IF Head(s) \in patterns THEN <<REDACTED>> \o ExtraPass(Tail(s), patterns)
  ELSE <<Head(s)>> \o ExtraPass(Tail(s), patterns)

Redact(text, extraPatterns) ==
  LET l1 == SeqDrop(SeqDrop(TagLoop(text), {OPEN}), {CLOSE})
      l2 == BuiltinPass(l1)
  IN ExtraPass(l2, extraPatterns)

\* ------------------------------------------------------------------------
\* Redaction, character by character
\* ------------------------------------------------------------------------
\* Where a tag can be put together from the characters around a removed
\* tag, a token is too coarse: here a text is the sequence of its
\* characters.
OpenChars == <<"<", "r", "e", "d", "a", "c", "t", "e", "d", ">">>
CloseChars == <<"<", "/", "r", "e", "d", "a", "c", "t", "e", "d", ">">>
ReplacementChars == <<"[", "R", "E", "D", "A", "C", "T", "E", "D", "]">>
GhpChars == <<"g", "h", "p", "_">>

\* The characters of [a-zA-Z0-9] that occur in the texts followed here.
AlnumChars == {"r", "e", "d", "a", "c", "t", "g", "h", "p", "x",
               "R", "E", "D", "A", "C", "T"}

\* A caller-supplied pattern: the literal x.
IgnoreChars == <<"x">>

\* strings.Index from position from on: the first position at which pat
\* starts, 0 when there is none.
RECURSIVE IndexOfSub(_, _, _)
IndexOfSub(s, pat, from) ==
  IF from + Len(pat) - 1 > Len(s) THEN 0
  ELSE IF SubSeq(s, from, from + Len(pat) - 1) = pat THEN from
  ELSE IndexOfSub(s, pat, from + 1)

\* strings.ReplaceAll(s, old, new) and ReplaceAllString of a literal:
\* the non-overlapping occurrences, left to right.
RECURSIVE ReplaceAllChars(_, _, _)
ReplaceAllChars(s, old, new) ==
  LET i == IndexOfSub(s, old, 1)
  IN IF i = 0 THEN s
     ELSE SubSeq(s, 1, i - 1) \o new
          \o ReplaceAllChars(SubSeq(s, i + Len(old), Len(s)), old, new)

\* One redactedTagRe.ReplaceAllString pass on characters.
RECURSIVE TagPassChars(_)
TagPassChars(s) ==
  LET i == IndexOfSub(s, OpenChars, 1)
      j == IF i = 0 THEN 0 ELSE IndexOfSub(s, CloseChars, i + Len(OpenChars))
  IN IF i = 0 \/ j = 0 THEN s
     ELSE SubSeq(s, 1, i - 1) \o ReplacementChars
          \o TagPassChars(SubSeq(s, j + Len(CloseChars), Len(s)))

RECURSIVE TagLoopChars(_)
TagLoopChars(s) ==
  LET next == TagPassChars(s)
  IN IF next = s THEN s ELSE TagLoopChars(next)

\* The end of the longest run of [a-zA-Z0-9] that starts at position from
\* (from - 1 when s[from] is no such character).
RECURSIVE AlnumRunEnd(_, _)
AlnumRunEnd(s, from) ==
  IF from > Len(s) \/ s[from] \notin AlnumChars THEN from - 1
  ELSE AlnumRunEnd(s, from + 1)

\* The first position at or after from where `ghp_[a-zA-Z0-9]+` matches.
RECURSIVE GhpMatch(_, _)
GhpMatch(s, from) ==
  LET i == IndexOfSub(s, GhpChars, from)
  IN IF i = 0 THEN 0
     ELSE IF AlnumRunEnd(s, i + Len(GhpChars)) >= i + Len(GhpChars) THEN i
     ELSE GhpMatch(s, i + 1)

\* Layer 2 on characters.  Of the built-in patterns only the GitHub token
\* shape can match a text over the characters followed here: each of the
\* others needs a character (s, k, K, o, y, i, -) that no such text holds.
RECURSIVE BuiltinPassChars(_)
BuiltinPassChars(s) ==
  LET i == GhpMatch(s, 1)
      j == AlnumRunEnd(s, i + Len(GhpChars))
  IN IF i = 0 THEN s
     ELSE SubSeq(s, 1, i - 1) \o ReplacementChars
          \o BuiltinPassChars(SubSeq(s, j + 1, Len(s)))

\* Redact on characters, with one caller-supplied literal pattern.
RedactChars(text, extra) ==
  LET l1 == ReplaceAllChars(ReplaceAllChars(TagLoopChars(text), OpenChars, <<>>),
                            CloseChars, <<>>)
      l2 == BuiltinPassChars(l1)
  IN ReplaceAllChars(l2, extra, ReplacementChars)

\* ------------------------------------------------------------------------
\* Data model (models.Memory, the SQL schema)
\* ------------------------------------------------------------------------
\* models.ValidCategories, in canonical order.
ValidCategories == <<"decision", "pattern", "bug", "context", "learning">>

\* Memory ids: newUUID() output, abstracted to two characters.
IdChars == {"a", "b"}
IDs == {<<x, y>> : x \in IdChars, y \in IdChars}

\* Embedding widths a provider can have.
Dims == {4, 8}

\* strconv.Itoa / strconv.Atoi on the widths the meta table stores.
Itoa(n) == CASE n = 4 -> "4" [] n = 8 -> "8" [] OTHER -> "?"
Atoi(v) == CASE v = "4" -> 4 [] v = "8" -> 8 [] OTHER -> 0

\* json.Marshal / json.Unmarshal of a string slice (tags column).
JsonMarshal(tags) == [json |-> tags]
JsonUnmarshal(col) == col.json

\* The "--- updated YYYY-MM-DD ---" divider line for a day.
DayName(day) ==
  CASE day = 0 -> "2026-01-01" [] day = 1 -> "2026-01-02"
    [] day = 2 -> "2026-01-03" [] OTHER -> "2026-01-04"
Divider(day) == <<"--- updated", DayName(day), "---\n">>

\* The "\n\n" UpdateMemory puts between the old body and the appended one.
NL2 == "\n\n"

VARIABLES
  db,         \* the SQLite database: memories, memory_details, meta, memories_fts, memories_vec
  files,      \* the vault: session Markdown files keyed by <<project, day>>
  vectorsOK,  \* Service.vectorsOK: "nil", "true" or "false"
  provider,   \* the configured embedding provider: [kind, dim]
  now,        \* the current UTC day; the runs followed here stay within one day
  lastOp,     \* the last operation and what it returned
  logCount,   \* number of ids implied by the operation log
  ignoreFile, \* the lines of <memory home>/.memoryignore
  tasks       \* the calls in flight on the service: per task, its position and locals

vars == <<db, files, vectorsOK, provider, now, lastOp, logCount, ignoreFile, tasks>>

\* ------------------------------------------------------------------------
\* Full-text index (memories_fts and its triggers)
\* ------------------------------------------------------------------------
RECURSIVE SeqToBag(_)
SeqToBag(s) ==
  IF s = <<>> THEN EmptyBag ELSE SetToBag({Head(s)}) (+) SeqToBag(Tail(s))

\* What the tokenizer yields for one TEXT column.
FtsTokens(text) ==
  LET s == SeqDrop(text, {WS})
  IN [i \in 1..Len(s) |-> FtsToken(s[i])]

\* The postings FTS5 derives from the indexed columns
\* title, what, why, impact, tags, category, project, source of one row.
RowPostings(rowid, r) ==
  LET toks == FtsTokens(r.title) \o FtsTokens(r.what) \o FtsTokens(r.why)
              \o FtsTokens(r.impact) \o FtsTokens(JsonUnmarshal(r.tags))
              \o (IF r.category = "" THEN <<>> ELSE <<r.category>>)
              \o <<r.project>>
  IN SeqToBag([i \in 1..Len(toks) |-> <<rowid, toks[i]>>])

\* Trigger memories_ai.
TriggerAfterInsert(fts, rowid, new) == fts (+) RowPostings(rowid, new)

\* Trigger memories_ad: the 'delete' sentinel row with the old values.
TriggerAfterDelete(fts, rowid, old) == fts (-) RowPostings(rowid, old)

\* An update trigger that only inserts the new values.
TriggerAfterUpdateNoDelete(fts, rowid, old, new) == fts (+) RowPostings(rowid, new)

\* Trigger memories_au: 'delete' sentinel for the old values, then insert.
TriggerAfterUpdate(fts, rowid, old, new) ==
  (fts (-) RowPostings(rowid, old)) (+) RowPostings(rowid, new)

\* ------------------------------------------------------------------------
\* Storage engine (db.DB)
\* ------------------------------------------------------------------------
NoVec == [exists |-> FALSE, dim |-> 0, rows |-> <<>>]

\* db.Open on an empty file: createSchema, no embedding_dim persisted.
EmptyDB ==
  [memories |-> <<>>, seq |-> 0, details |-> <<>>, meta |-> <<>>,
   fts |-> EmptyBag, vec |-> NoVec]

Ids(d) == {d.memories[r].id : r \in DOMAIN d.memories}

RowidOf(d, id) == CHOOSE r \in DOMAIN d.memories : d.memories[r].id = id

\* Remove key k from a function.
DropKey(f, k) == [x \in (DOMAIN f) \ {k} |-> f[x]]

\* f with key k set to v (INSERT OR REPLACE).
Upsert(f, k, v) == [x \in (DOMAIN f) \cup {k} |-> IF x = k THEN v ELSE f[x]]

GetMeta(d, key) == IF key \in DOMAIN d.meta THEN [ok |-> TRUE, val |-> d.meta[key]]
                   ELSE [ok |-> FALSE, val |-> ""]

SetMeta(d, key, value) == [d EXCEPT !.meta = Upsert(d.meta, key, value)]

GetEmbeddingDim(d) ==
  LET m == GetMeta(d, "embedding_dim")
  IN IF m.ok THEN [ok |-> TRUE, dim |-> Atoi(m.val)] ELSE [ok |-> FALSE, dim |-> 0]

SetEmbeddingDim(d, dim) == SetMeta(d, "embedding_dim", Itoa(dim))

\* CREATE VIRTUAL TABLE IF NOT EXISTS memories_vec ... float[dim].
createVecTable(d, dim) ==
  IF d.vec.exists THEN d
  ELSE [d EXCEPT !.vec = [exists |-> TRUE, dim |-> dim, rows |-> <<>>]]

HasVecTable(d) == d.vec.exists

DropVecTable(d) == [d EXCEPT !.vec = NoVec]

\* Result: [db, err] with err "" or "DimensionMismatch".
EnsureVecTable(d, dim) ==
  LET stored == GetEmbeddingDim(d)
  IN IF ~stored.ok THEN [db |-> createVecTable(SetEmbeddingDim(d, dim), dim), err |-> ""]
     ELSE IF stored.dim # dim THEN [db |-> d, err |-> "DimensionMismatch"]
     ELSE [db |-> d, err |-> ""]

\* Result: [db, rowid].  The AFTER INSERT trigger runs with the statement.
InsertMemory(d, mem, details) ==
  LET rowid == d.seq + 1
      d1 == [d EXCEPT !.memories = Upsert(d.memories, rowid, mem),
                      !.seq = rowid,
                      !.fts = TriggerAfterInsert(d.fts, rowid, mem)]
      d2 == IF details # <<>>
            THEN [d1 EXCEPT !.details = Upsert(d1.details, mem.id, details)]
            ELSE d1
  IN [db |-> d2, rowid |-> rowid]

\* Result: [db, err].  Silently skips when the vec table does not exist;
\* vec0 rejects a blob whose width is not the column's.
InsertVector(d, rowid, embedding) ==
  IF ~HasVecTable(d) THEN [db |-> d, err |-> ""]
  ELSE IF Len(embedding) # d.vec.dim THEN [db |-> d, err |-> "vec0: dimension"]
  ELSE [db |-> [d EXCEPT !.vec.rows = Upsert(d.vec.rows, rowid, embedding)], err |-> ""]

\* SELECT ... WHERE m.id = ? LIMIT 1
GetMemory(d, id) ==
  IF id \in Ids(d) THEN [found |-> TRUE, rowid |-> RowidOf(d, id), row |-> d.memories[RowidOf(d, id)]]
  ELSE [found |-> FALSE, rowid |-> 0, row |-> <<>>]

\* x is a literal prefix of sequence y.
IsPrefixOf(x, y) == Len(x) <= Len(y) /\ SubSeq(y, 1, Len(x)) = x

\* The case folding LIKE applies to ASCII letters.
LikeFold(c) == CASE c = "A" -> "a" [] c = "B" -> "b" [] OTHER -> c

\* SQLite's LIKE without ESCAPE: % in the pattern matches any run of
\* characters, _ any one character, a letter itself in either case.
RECURSIVE Like(_, _)
Like(pattern, s) ==
  IF pattern = <<>> THEN s = <<>>
  ELSE IF Head(pattern) = "%"
       THEN Like(Tail(pattern), s) \/ (s # <<>> /\ Like(pattern, Tail(s)))
       ELSE /\ s # <<>>
            /\ (Head(pattern) = "_" \/ LikeFold(Head(pattern)) = LikeFold(Head(s)))
            /\ Like(Tail(pattern), Tail(s))

\* Rows an id-or-prefix argument can resolve to (WHERE id LIKE ? with the
\* argument followed by %): the statement has no ORDER BY, so any matching
\* row can be the first one returned.
LikeMatches(d, id) == {r \in DOMAIN d.memories : Like(id \o <<"%">>, d.memories[r].id)}

\* Outcomes of GetDetails: SELECT memory_id, body FROM memory_details
\* WHERE memory_id LIKE ?, first row; [found, memory_id, body].
GetDetails(d, id) ==
  LET M == {m \in DOMAIN d.details : Like(id \o <<"%">>, m)}
  IN IF M = {} THEN {[found |-> FALSE, memory_id |-> <<>>, body |-> <<>>]}
     ELSE {[found |-> TRUE, memory_id |-> m, body |-> d.details[m]] : m \in M}

\* An update that overwrites the detail body with the appended text.
UpdateMemoryOverwritesDetails(d, id, pick, what, why, impact, tags, detailsAppend) ==
  IF LikeMatches(d, id) = {} THEN [db |-> d, found |-> FALSE]
  ELSE
    LET old == d.memories[pick]
        new == [old EXCEPT !.updated_count = @ + 1,
                           !.what = IF what # <<>> THEN what ELSE @,
                           !.why = IF why # <<>> THEN why ELSE @,
                           !.impact = IF impact # <<>> THEN impact ELSE @,
                           !.tags = JsonMarshal(tags)]
        d1 == [d EXCEPT !.memories[pick] = new,
                        !.fts = TriggerAfterUpdate(d.fts, pick, old, new)]
        d2 == IF detailsAppend = <<>> THEN d1
              ELSE [d1 EXCEPT !.details = Upsert(d1.details, old.id, detailsAppend)]
    IN [db |-> d2, found |-> TRUE]

\* Result: [db, found].  pick is the row the prefix SELECT returned.
UpdateMemory(d, id, pick, what, why, impact, tags, detailsAppend) ==
  IF LikeMatches(d, id) = {} THEN [db |-> d, found |-> FALSE]
  ELSE
    LET old == d.memories[pick]
        new == [old EXCEPT !.updated_count = @ + 1,
                           !.what = IF what # <<>> THEN what ELSE @,
                           !.why = IF why # <<>> THEN why ELSE @,
                           !.impact = IF impact # <<>> THEN impact ELSE @,
                           !.tags = JsonMarshal(tags)]
        d1 == [d EXCEPT !.memories[pick] = new,
                        !.fts = TriggerAfterUpdate(d.fts, pick, old, new)]
        d2 == IF detailsAppend = <<>> THEN d1
              ELSE IF old.id \notin DOMAIN d1.details
                   THEN [d1 EXCEPT !.details = Upsert(d1.details, old.id, detailsAppend)]
                   ELSE [d1 EXCEPT !.details[old.id] = @ \o <<NL2>> \o detailsAppend]
    IN [db |-> d2, found |-> TRUE]

\* A details statement that deletes nothing.
DeleteDetailsStmtNone(d, id) == d

\* DELETE FROM memory_details WHERE memory_id = ?
DeleteDetailsStmt(d, id) == [d EXCEPT !.details = DropKey(d.details, id)]

\* DELETE FROM memories_vec WHERE rowid = ?  (an error when the table does
\* not exist, which both callers log and ignore).
DeleteVecStmt(d, rowid) ==
  IF ~d.vec.exists THEN d ELSE [d EXCEPT !.vec.rows = DropKey(d.vec.rows, rowid)]

\* DELETE FROM memories WHERE id = ?  with trigger memories_ad.
DeleteRowStmt(d, rowid) ==
  IF rowid \notin DOMAIN d.memories THEN d
  ELSE [d EXCEPT !.memories = DropKey(d.memories, rowid),
                 !.fts = TriggerAfterDelete(d.fts, rowid, d.memories[rowid])]

\* A deletion that removes the memory row before its vector row.
DeleteRowStepsRowFirst(d, rowid) ==
  LET id == d.memories[rowid].id
      d1 == DeleteDetailsStmt(d, id)
      d2 == DeleteRowStmt(d1, rowid)
      d3 == DeleteVecStmt(d2, rowid)
  IN <<d1, d2, d3>>

\* The database after each of the three statements of one row's deletion.
DeleteRowSteps(d, rowid) ==
  LET id == d.memories[rowid].id
      d1 == DeleteDetailsStmt(d, id)
      d2 == DeleteVecStmt(d1, rowid)
      d3 == DeleteRowStmt(d2, rowid)
  IN <<d1, d2, d3>>

\* A delete that stops after the details and vector statements.
DeleteMemoryKeepsRow(d, id, pick) ==
  IF LikeMatches(d, id) = {} THEN [db |-> d, found |-> FALSE]
  ELSE [db |-> DeleteRowSteps(d, pick)[2], found |-> TRUE]

\* Result: [db, found].
DeleteMemory(d, id, pick) ==
  IF LikeMatches(d, id) = {} THEN [db |-> d, found |-> FALSE]
  ELSE [db |-> DeleteRowSteps(d, pick)[3], found |-> TRUE]

\* A row selection that does not look at the category.
FilterMatchesAnyCategory(d, project, category, before) ==
  {r \in DOMAIN d.memories :
     /\ d.memories[r].created_at < before
     /\ (project # "" => d.memories[r].project = project)}

\* Rows DeleteByFilter selects.
FilterMatches(d, project, category, before) ==
  {r \in DOMAIN d.memories :
     /\ d.memories[r].created_at < before
     /\ (project # "" => d.memories[r].project = project)
     /\ (category # "" => d.memories[r].category = category)}

RECURSIVE DeleteRows(_, _)
DeleteRows(d, rowids) ==
  IF rowids = {} THEN d
  ELSE LET r == CHOOSE x \in rowids : \A y \in rowids : x <= y
       IN DeleteRows(DeleteRowSteps(d, r)[3], rowids \ {r})

\* Result: [db, n].
DeleteByFilter(d, project, category, before) ==
  LET entries == FilterMatches(d, project, category, before)
  IN [db |-> DeleteRows(d, entries), n |-> Cardinality(entries)]

\* A replace that leaves the old detail row when the new body is empty.
ReplaceMemoryKeepsDetails(d, id, pick, title, what, why, impact, tags, category, details) ==
  IF LikeMatches(d, id) = {} THEN [db |-> d, found |-> FALSE]
  ELSE
    LET old == d.memories[pick]
        new == [old EXCEPT !.title = title, !.what = what, !.why = why,
                           !.impact = impact, !.tags = JsonMarshal(tags),
                           !.category = category,
                           !.updated_count = @ + 1]
        d1 == [d EXCEPT !.memories[pick] = new,
                        !.fts = TriggerAfterUpdate(d.fts, pick, old, new)]
        d2 == IF details # <<>>
              THEN [d1 EXCEPT !.details = Upsert(d1.details, old.id, details)]
              ELSE d1
    IN [db |-> d2, found |-> TRUE]

\* Result: [db, found].
ReplaceMemory(d, id, pick, title, what, why, impact, tags, category, details) ==
  IF LikeMatches(d, id) = {} THEN [db |-> d, found |-> FALSE]
  ELSE
    LET old == d.memories[pick]
        new == [old EXCEPT !.title = title, !.what = what, !.why = why,
                           !.impact = impact, !.tags = JsonMarshal(tags),
                           !.category = category,
                           !.updated_count = @ + 1]
        d1 == [d EXCEPT !.memories[pick] = new,
                        !.fts = TriggerAfterUpdate(d.fts, pick, old, new)]
        d2 == IF details # <<>>
              THEN [d1 EXCEPT !.details = Upsert(d1.details, old.id, details)]
              ELSE DeleteDetailsStmt(d1, old.id)
    IN [db |-> d2, found |-> TRUE]

\* The statements of UpdateMemory, ReplaceMemory and DeleteMemory run one
\* after the other on the connection, outside any transaction: when the
\* statement numbered failAt returns an error, the statements before it
\* stay applied.  Result: [db, found, err].

\* UpdateMemory: statement 1 is UPDATE memories, statement 2 the SELECT
\* and INSERT or UPDATE of memory_details, run when detailsAppend is set.
UpdateMemoryFailing(d, id, pick, what, why, impact, tags, detailsAppend, failAt) ==
  IF LikeMatches(d, id) = {} THEN [db |-> d, found |-> FALSE, err |-> FALSE]
  ELSE IF failAt = 1 THEN [db |-> d, found |-> FALSE, err |-> TRUE]
  ELSE IF failAt = 2 /\ detailsAppend # <<>>
  THEN [db |-> UpdateMemory(d, id, pick, what, why, impact, tags, <<>>).db,
        found |-> FALSE, err |-> TRUE]
  ELSE [db |-> UpdateMemory(d, id, pick, what, why, impact, tags, detailsAppend).db,
        found |-> TRUE, err |-> FALSE]

\* UPDATE memories SET title = ?, ... WHERE id = ?  of ReplaceMemory, with
\* trigger memories_au.
ReplaceRowStmt(d, pick, title, what, why, impact, tags, category) ==
  LET old == d.memories[pick]
      new == [old EXCEPT !.title = title, !.what = what, !.why = why,
                         !.impact = impact, !.tags = JsonMarshal(tags),
                         !.category = category,
                         !.updated_count = @ + 1]
  IN [d EXCEPT !.memories[pick] = new,
               !.fts = TriggerAfterUpdate(d.fts, pick, old, new)]

\* ReplaceMemory: statement 1 is UPDATE memories, statement 2 the INSERT OR
\* REPLACE or DELETE on memory_details.
ReplaceMemoryFailing(d, id, pick, title, what, why, impact, tags, category, details, failAt) ==
  IF LikeMatches(d, id) = {} THEN [db |-> d, found |-> FALSE, err |-> FALSE]
  ELSE IF failAt = 1 THEN [db |-> d, found |-> FALSE, err |-> TRUE]
  ELSE IF failAt = 2
  THEN [db |-> ReplaceRowStmt(d, pick, title, what, why, impact, tags, category),
        found |-> FALSE, err |-> TRUE]
  ELSE [db |-> ReplaceMemory(d, id, pick, title, what, why, impact, tags, category, details).db,
        found |-> TRUE, err |-> FALSE]

\* DeleteMemory: statement 1 is DELETE FROM memory_details, statement 2
\* DELETE FROM memories_vec, whose error is logged and ignored, statement 3
\* DELETE FROM memories.
DeleteMemoryFailing(d, id, pick, failAt) ==
  IF LikeMatches(d, id) = {} THEN [db |-> d, found |-> FALSE, err |-> FALSE]
  ELSE IF failAt = 1 THEN [db |-> d, found |-> FALSE, err |-> TRUE]
  ELSE IF failAt = 2
  THEN [db |-> DeleteRowStmt(DeleteDetailsStmt(d, d.memories[pick].id), pick),
        found |-> TRUE, err |-> FALSE]
  ELSE IF failAt = 3
  THEN [db |-> DeleteRowSteps(d, pick)[2], found |-> FALSE, err |-> TRUE]
  ELSE [db |-> DeleteRowSteps(d, pick)[3], found |-> TRUE, err |-> FALSE]

\* SELECT rowid, ... FROM memories ORDER BY rowid
RECURSIVE SortedRowids(_)
SortedRowids(S) ==
  IF S = {} THEN <<>>
  ELSE LET r == CHOOSE x \in S : \A y \in S : x <= y
       IN <<r>> \o SortedRowids(S \ {r})

\* A listing that returns the first row only.
ListAllForReindexFirst(d) == Take(SortedRowids(DOMAIN d.memories), 1)

ListAllForReindex(d) == SortedRowids(DOMAIN d.memories)

CountMemories(d) == Cardinality(DOMAIN d.memories)

\* buildWhere on the project: the rows a listing or a count looks at.
ProjectRows(d, project) ==
  {r \in DOMAIN d.memories : project # "" => d.memories[r].project = project}

\* ------------------------------------------------------------------------
\* Ranking helpers
\* ------------------------------------------------------------------------
RECURSIVE SumOver(_, _)
SumOver(S, f) ==
  IF S = {} THEN 0
  ELSE LET x == CHOOSE y \in S : TRUE IN f[x] + SumOver(S \ {x}, f)

\* A sort that puts the lowest score first.
RECURSIVE RankingsAscending(_)
RankingsAscending(P) ==
  IF P = {} THEN {<<>>}
  ELSE UNION {{<<x>> \o s : s \in RankingsAscending(P \ {x})}
                : x \in {y \in P : \A z \in P : y[2] <= z[2]}}

\* Every order a sort by descending score can produce for a set of
\* <<key, score>> pairs; equal scores can come out in either order.
RECURSIVE Rankings(_)
Rankings(P) ==
  IF P = {} THEN {<<>>}
  ELSE UNION {{<<x>> \o s : s \in Rankings(P \ {x})}
                : x \in {y \in P : \A z \in P : y[2] >= z[2]}}

\* DB.ListRecent: the rows of the project by created_at, newest first, rows
\* of one instant in either order, cut at limit (a negative LIMIT cuts
\* nothing).  Every list the SELECT can return, as rowids.
ListRecent(d, limit, project) ==
  LET P == {<<r, d.memories[r].created_at>> : r \in ProjectRows(d, project)}
  IN {LET rows == [i \in 1..Len(s) |-> s[i][1]]
      IN IF limit < 0 THEN rows ELSE Take(rows, limit)
        : s \in Rankings(P)}

\* ------------------------------------------------------------------------
\* Full-text search (DB.FTSSearch)
\* ------------------------------------------------------------------------
\* strings.Fields, then the tokenizer applied to each quoted term.
QueryTerms(query) == FtsTokens(query)

\* The rank of one row for a query: FTS5's bm25 grows with the number of
\* occurrences of the query's terms in the row's postings; the score
\* (-rank) is modelled as that number of occurrences.
Bm25(d, rowid, terms) ==
  LET P == {e \in BagToSet(d.fts) : e[1] = rowid}
      hits == [e \in P |->
                 CopiesIn(e, d.fts) * Cardinality({i \in 1..Len(terms) : PrefixMatch(terms[i], e[2])})]
  IN SumOver(P, hits)

\* Rowids the MATCH returns, joined with memories and filtered by project.
FtsHits(d, terms, project) ==
  {r \in DOMAIN d.memories :
     /\ \E e \in BagToSet(d.fts) :
          e[1] = r /\ \E i \in 1..Len(terms) : PrefixMatch(terms[i], e[2])
     /\ (project # "" => d.memories[r].project = project)}

\* The query is non-empty but has no term: FTS5 reports a syntax error.
FTSSearchFails(query) == query # <<>> /\ QueryTerms(query) = <<>>

\* The possible results: sequences of [rowid, num, den], score = num / den,
\* best first, at most limit of them.
FTSSearch(d, query, limit, project) ==
  IF query = <<>> \/ FTSSearchFails(query) THEN {<<>>}
  ELSE
    LET terms == QueryTerms(query)
        P == {<<r, Bm25(d, r, terms)>> : r \in FtsHits(d, terms, project)}
    IN {Take([i \in 1..Len(s) |-> [rowid |-> s[i][1], num |-> s[i][2], den |-> 1]], limit)
          : s \in Rankings(P)}

\* ------------------------------------------------------------------------
\* Embeddings and vector search
\* ------------------------------------------------------------------------
\* What a provider of width dim returns for a text: dim components that
\* depend on the words of the text.
Embed(text, dim) == [i \in 1..dim |-> Range(FtsTokens(text))]

\* The text Save, Replace and Reindex embed: title what why impact tags.
EmbedText(title, what, why, impact, tags) ==
  title \o <<WS>> \o what \o <<WS>> \o why \o <<WS>> \o impact \o <<WS>> \o tags

\* vec0's distance between two vectors of one width.
Distance(q, v) == Cardinality((q[1] \ v[1]) \cup (v[1] \ q[1]))

\* The query vector's width is not the table's: the MATCH fails.
VectorSearchFails(d, q) == HasVecTable(d) /\ Len(q) # d.vec.dim

\* The possible results, [rowid, num, den] with score = 1 - distance.
VectorSearch(d, q, limit, project) ==
  IF ~HasVecTable(d) \/ VectorSearchFails(d, q) THEN {<<>>}
  ELSE
    LET P == {<<r, 1 - Distance(q, d.vec.rows[r])>> : r \in DOMAIN d.vec.rows}
        keep == {x \in P : /\ x[1] \in DOMAIN d.memories
                           /\ (project # "" => d.memories[x[1]].project = project)}
    IN {LET idx == SeqFilter(Take(s, limit), keep)
        IN [i \in 1..Len(idx) |-> [rowid |-> idx[i][1], num |-> idx[i][2], den |-> 1]]
          : s \in Rankings(P)}

\* ------------------------------------------------------------------------
\* Search engine (package search)
\* ------------------------------------------------------------------------
clamp(limit, n) == IF limit <= 0 THEN n ELSE IF limit < n THEN limit ELSE n

\* Largest score of the rows when it is positive, else 1.
MaxScore(rows) ==
  LET pos == {x \in {rows[i].num : i \in 1..Len(rows)} : x > 0}
  IN IF pos = {} THEN 1 ELSE CHOOSE m \in pos : \A x \in pos : x <= m

\* Rows leave the database with den = 1; a second normalisation divides by
\* a maximum of 1 and changes nothing.
normalizeRows(rows) ==
  IF rows = <<>> THEN rows
  ELSE IF \A i \in 1..Len(rows) : rows[i].den = 1
       THEN [i \in 1..Len(rows) |-> [rows[i] EXCEPT !.den = MaxScore(rows)]]
       ELSE rows

\* The possible merged lists; the merged score of an id is
\* ftsWeight * fts + vecWeight * vec with weights 0.3 and 0.7, here scaled
\* by 10 * (fts denominator) * (vec denominator).
MergeResults(fts, vec, limit) ==
  LET f == normalizeRows(fts)
      v == normalizeRows(vec)
      fd == IF f = <<>> THEN 1 ELSE f[1].den
      vd == IF v = <<>> THEN 1 ELSE v[1].den
      F == {f[i].rowid : i \in 1..Len(f)}
      V == {v[i].rowid : i \in 1..Len(v)}
      fnum(r) == LET I == {i \in 1..Len(f) : f[i].rowid = r}
                 IN IF I = {} THEN 0 ELSE f[CHOOSE i \in I : TRUE].num
      vnum(r) == LET I == {i \in 1..Len(v) : v[i].rowid = r}
                 IN IF I = {} THEN 0 ELSE v[CHOOSE i \in I : TRUE].num
      P == {<<r, 3 * fnum(r) * vd + 7 * vnum(r) * fd>> : r \in F \cup V}
  IN {LET all == [i \in 1..Len(s) |-> [rowid |-> s[i][1], num |-> s[i][2], den |-> 10 * fd * vd]]
      IN IF limit > 0 /\ Len(all) > limit THEN Take(all, limit) ELSE all
        : s \in Rankings(P)}

\* minFTS default of TieredSearch.
DefaultMinFTS == 3

\* A tiered search that consults the provider however many rows the
\* full-text search returned.
TieredSearchAlwaysEmbeds(d, hasEp, embedOK, dim, query, limit, minFTS, project) ==
  IF FTSSearchFails(query)
  THEN {[err |-> "FTSSearch", results |-> <<>>, embedCalled |-> FALSE, vecUsed |-> FALSE]}
  ELSE UNION {
    LET ftsRows == normalizeRows(raw)
        ftsOnly == Take(ftsRows, clamp(limit, Len(ftsRows)))
        q == Embed(query, dim)
    IN IF ~hasEp
       THEN {[err |-> "", results |-> ftsOnly, embedCalled |-> FALSE, vecUsed |-> FALSE]}
       ELSE IF ~embedOK \/ VectorSearchFails(d, q)
       THEN {[err |-> "", results |-> ftsOnly, embedCalled |-> TRUE, vecUsed |-> FALSE]}
       ELSE {[err |-> "", results |-> m, embedCalled |-> TRUE, vecUsed |-> TRUE]
               : m \in UNION {MergeResults(ftsRows, vecRows, limit)
                                : vecRows \in VectorSearch(d, q, limit * 2, project)}}
    : raw \in FTSSearch(d, query, limit * 2, project)}

\* The possible outcomes of TieredSearch: [err, results, embedCalled, vecUsed].
\* hasEp: a provider was passed; embedOK: its Embed call answers; dim: its width.
TieredSearch(d, hasEp, embedOK, dim, query, limit, minFTS, project) ==
  LET min == IF minFTS <= 0 THEN DefaultMinFTS ELSE minFTS
  IN IF FTSSearchFails(query)
     THEN {[err |-> "FTSSearch", results |-> <<>>, embedCalled |-> FALSE, vecUsed |-> FALSE]}
     ELSE UNION {
       LET ftsRows == normalizeRows(raw)
           ftsOnly == Take(ftsRows, clamp(limit, Len(ftsRows)))
           q == Embed(query, dim)
       IN IF Len(ftsRows) >= min \/ ~hasEp
          THEN {[err |-> "", results |-> ftsOnly, embedCalled |-> FALSE, vecUsed |-> FALSE]}
          ELSE IF ~embedOK \/ VectorSearchFails(d, q)
          THEN {[err |-> "", results |-> ftsOnly, embedCalled |-> TRUE, vecUsed |-> FALSE]}
          ELSE {[err |-> "", results |-> m, embedCalled |-> TRUE, vecUsed |-> TRUE]
                  : m \in UNION {MergeResults(ftsRows, vecRows, limit)
                                   : vecRows \in VectorSearch(d, q, limit * 2, project)}}
       : raw \in FTSSearch(d, query, limit * 2, project)}

\* The possible outcomes of HybridSearch, same shape.
HybridSearch(d, hasEp, embedOK, dim, query, limit, project) ==
  IF FTSSearchFails(query)
  THEN {[err |-> "FTSSearch", results |-> <<>>, embedCalled |-> FALSE, vecUsed |-> FALSE]}
  ELSE UNION {
    LET q == Embed(query, dim)
    IN IF ~hasEp
       THEN LET ftsRows == normalizeRows(raw)
            IN {[err |-> "", results |-> Take(ftsRows, clamp(limit, Len(ftsRows))),
                 embedCalled |-> FALSE, vecUsed |-> FALSE]}
       ELSE IF ~embedOK
       THEN {[err |-> "Embed", results |-> <<>>, embedCalled |-> TRUE, vecUsed |-> FALSE]}
       ELSE IF VectorSearchFails(d, q)
       THEN {[err |-> "VectorSearch", results |-> <<>>, embedCalled |-> TRUE, vecUsed |-> FALSE]}
       ELSE {[err |-> "", results |-> m, embedCalled |-> TRUE, vecUsed |-> TRUE]
               : m \in UNION {MergeResults(raw, vecRows, limit)
                                : vecRows \in VectorSearch(d, q, limit * 2, project)}}
    : raw \in FTSSearch(d, query, limit * 2, project)}

\* ------------------------------------------------------------------------
\* Markdown emitter (package markdown)
\* ------------------------------------------------------------------------
\* A file body is the sequence of its lines (the string split on "\n"); a
\* line is a token sequence, the blank line is <<>>.
Blank == <<>>

\* models.CategoryHeadings
CategoryHeadings(cat) ==
  CASE cat = "decision" -> <<"Decisions">>
    [] cat = "pattern" -> <<"Patterns">>
    [] cat = "bug" -> <<"Bugs", "Fixed">>
    [] cat = "context" -> <<"Context">>
    [] cat = "learning" -> <<"Learnings">>
    [] OTHER -> <<>>

categoryIndex(cat) ==
  LET I == {i \in 1..Len(ValidCategories) : ValidCategories[i] = cat}
  IN IF I = {} THEN Len(ValidCategories) + 1 ELSE CHOOSE i \in I : TRUE

\* The lines of one "### Title" block.
RenderSection(mem, details) ==
  <<(<<"###">> \o mem.title), (<<"**What:**">> \o mem.what)>>
  \o (IF mem.why # <<>> THEN <<(<<"**Why:**">> \o mem.why)>> ELSE <<>>)
  \o (IF mem.impact # <<>> THEN <<(<<"**Impact:**">> \o mem.impact)>> ELSE <<>>)
  \o (IF details # <<>> THEN <<Blank, <<"<details>">>, details, <<"</details>">>>> ELSE <<>>)

H2Line(cat) == <<"##">> \o CategoryHeadings(cat)

\* strings.TrimRight(body, "\n")
RECURSIVE TrimRightNL(_)
TrimRightNL(lines) ==
  IF lines # <<>> /\ lines[Len(lines)] = Blank /\ Len(lines) > 1
  THEN TrimRightNL(SubSeq(lines, 1, Len(lines) - 1))
  ELSE lines

\* Front-matter tags: sortedUniq keeps the non-empty tags, sorted, once each.
sortedUniq(tags) == Range(tags) \ {""}

createNewSessionFile(mem, day, section) ==
  [tags |-> sortedUniq(mem.tags),
   body |-> <<Blank, <<"#", DayName(day), "Session">>>>
            \o (IF mem.category # "" THEN <<Blank, H2Line(mem.category)>> ELSE <<>>)
            \o <<Blank>> \o section \o <<Blank>>]

\* strings.Contains(body, "## " + heading): the marker also occurs inside a
\* "### heading..." line, and in any line that carries the two tokens.
ContainsMarker(body, heading) ==
  \E k \in 1..Len(body) : \E i \in 1..Len(body[k]) :
    /\ body[k][i] \in {"##", "###"}
    /\ i + Len(heading) <= Len(body[k])
    /\ SubSeq(body[k], i + 1, i + Len(heading)) = heading

IsBlankLine(line) == \A i \in 1..Len(line) : line[i] = WS

IsH2(line) == Len(line) >= 1 /\ line[1] = "##"

\* The scan of appendUnderExistingCategory from line i on.
RECURSIVE AppendScan(_, _, _, _)
AppendScan(lines, i, target, section) ==
  IF i > Len(lines) THEN <<>>
  ELSE IF lines[i] # target THEN <<lines[i]>> \o AppendScan(lines, i + 1, target, section)
  ELSE
    LET B == {j \in (i + 1)..Len(lines) : ~IsBlankLine(lines[j])}
        afterBlank == IF B = {} THEN Len(lines) + 1 ELSE CHOOSE j \in B : \A x \in B : j <= x
        H == {j \in afterBlank..Len(lines) : IsH2(lines[j])}
        stop == IF H = {} THEN Len(lines) + 1 ELSE CHOOSE j \in H : \A x \in H : j <= x
    IN SubSeq(lines, i, stop - 1) \o <<Blank>> \o section
       \o AppendScan(lines, stop, target, section)

appendUnderExistingCategory(body, cat, section) ==
  AppendScan(body, 1, H2Line(cat), section) \o <<Blank>>

\* The category a "## ..." line names, "" when it names none.
HeadingCategory(line) ==
  LET C == {i \in 1..Len(ValidCategories) :
              CategoryHeadings(ValidCategories[i]) = SubSeq(line, 2, Len(line))}
  IN IF C = {} THEN "" ELSE ValidCategories[CHOOSE i \in C : TRUE]

insertNewCategory(body, cat, section) ==
  LET later == {i \in 1..Len(body) :
                  /\ IsH2(body[i]) /\ Len(body[i]) > 1
                  /\ HeadingCategory(body[i]) # ""
                  /\ categoryIndex(HeadingCategory(body[i])) > categoryIndex(cat)}
      insertPos == IF later = {} THEN Len(body) + 1
                   ELSE CHOOSE i \in later : \A x \in later : i <= x
      newBlock == <<H2Line(cat), Blank>> \o section \o <<Blank>>
      merged == SubSeq(body, 1, insertPos - 1) \o newBlock \o SubSeq(body, insertPos, Len(body))
  IN TrimRightNL(merged) \o <<Blank>>

insertSectionInBody(body, mem, section) ==
  IF mem.category = "" THEN TrimRightNL(body) \o <<Blank>> \o section \o <<Blank>>
  ELSE IF ContainsMarker(body, CategoryHeadings(mem.category))
       THEN appendUnderExistingCategory(body, mem.category, section)
       ELSE insertNewCategory(body, mem.category, section)

\* An append that starts the body anew instead of inserting into it.
appendToSessionFileAnew(file, mem, section) ==
  [tags |-> sortedUniq(mem.tags) \cup file.tags,
   body |-> createNewSessionFile(mem, 0, section).body]

appendToSessionFile(file, mem, section) ==
  [tags |-> sortedUniq(mem.tags) \cup file.tags,
   body |-> insertSectionInBody(file.body, mem, section)]

\* Number of "### ..." sections in the vault.
Sections(fs) ==
  LET n(path) == Cardinality({i \in 1..Len(fs[path].body) :
                                Len(fs[path].body[i]) >= 1 /\ fs[path].body[i][1] = "###"})
      total[S \in SUBSET DOMAIN fs] ==
        IF S = {} THEN 0 ELSE LET x == CHOOSE y \in S : TRUE IN n(x) + total[S \ {x}]
  IN total[DOMAIN fs]

\* The vault after WriteSessionMemory(vaultProjectDir, mem, dateStr, details).
WriteSessionMemory(fs, mem, day, details) ==
  LET path == <<mem.project, day>>
      section == RenderSection(mem, details)
  IN IF path \notin DOMAIN fs
     THEN Upsert(fs, path, createNewSessionFile(mem, day, section))
     ELSE Upsert(fs, path, appendToSessionFile(fs[path], mem, section))

\* ------------------------------------------------------------------------
\* Inputs
\* ------------------------------------------------------------------------
RawInput(title, what, why, impact, details, tags, category) ==
  [title |-> title, what |-> what, why |-> why, impact |-> impact,
   details |-> details, tags |-> tags, category |-> category]

RawMake == RawInput(<<"make">>, <<"sql">>, <<>>, <<>>, <<>>, <<"build">>, "pattern")
RawMakeAgain == RawInput(<<"Make", WS>>, <<"make", "ci">>, <<>>, <<"faster">>, <<"plan">>, <<"Build", "ci">>, "pattern")
RawSql == RawInput(<<"sql">>, <<"make", "make">>, <<>>, <<>>, <<>>, <<>>, "decision")
RawCi == RawInput(<<"ci">>, <<"make">>, <<>>, <<>>, <<>>, <<"ci">>, "")
RawTagged == RawInput(<<"tags">>, <<"sql">>, <<>>, <<>>, <<>>, <<"Ops", "ops">>, "context")
RawLearn == RawInput(<<"retro">>, <<"notes">>, <<>>, <<>>, <<>>, <<>>, "learning")
\* Details that are the line "## Decisions".
RawHeading == RawInput(<<"adr">>, <<"log">>, <<>>, <<>>, <<"##", "Decisions">>, <<>>, "pattern")
\* The title "Context": its section starts with the line "### Context".
RawTitled == RawInput(<<"Context">>, <<"scope">>, <<>>, <<>>, <<>>, <<>>, "decision")
RawSecret == RawInput(<<"key", SECRET>>, <<"token", OPEN, "hunter2", CLOSE>>, <<"acme">>,
                      <<PWD, "hunter2">>, <<CLOSE, SECRET, OPEN>>, <<"ops">>, "bug")

\* ------------------------------------------------------------------------
\* Memory service (service.Service)
\* ------------------------------------------------------------------------
\* A line of .memoryignore regexp.Compile rejects.
BadRegex == "("

\* redaction.LoadMemoryIgnore on the lines of the file: blank lines and
\* comments are skipped, the first line that does not compile ends the
\* load with (nil, err).  Result: [patterns, err].
RECURSIVE LoadMemoryIgnore(_)
LoadMemoryIgnore(lines) ==
  IF lines = <<>> THEN [patterns |-> {}, err |-> FALSE]
  ELSE IF Head(lines) \in {"", "#"} THEN LoadMemoryIgnore(Tail(lines))
  ELSE IF Head(lines) = BadRegex THEN [patterns |-> {}, err |-> TRUE]
  ELSE LET rest == LoadMemoryIgnore(Tail(lines))
       IN IF rest.err THEN rest
          ELSE [patterns |-> {Head(lines)} \cup rest.patterns, err |-> FALSE]

\* getIgnorePatterns: the patterns loaded from .memoryignore on first use
\* and cached; a load error is logged and the empty list is cached.
getIgnorePatterns ==
  LET loaded == LoadMemoryIgnore(ignoreFile)
  IN IF loaded.err THEN {} ELSE loaded.patterns

\* Redaction that leaves the details body as it came.
RedactRawNoDetails(raw) ==
  LET patterns == getIgnorePatterns
  IN [raw EXCEPT !.title = Redact(raw.title, patterns),
                 !.what = Redact(raw.what, patterns),
                 !.why = IF raw.why # <<>> THEN Redact(raw.why, patterns) ELSE @,
                 !.impact = IF raw.impact # <<>> THEN Redact(raw.impact, patterns) ELSE @]

\* The five Redact calls at the top of Save and Replace; why, impact and
\* details are redacted only when non-empty.
RedactRaw(raw) ==
  LET patterns == getIgnorePatterns
  IN [raw EXCEPT !.title = Redact(raw.title, patterns),
                 !.what = Redact(raw.what, patterns),
                 !.why = IF raw.why # <<>> THEN Redact(raw.why, patterns) ELSE @,
                 !.impact = IF raw.impact # <<>> THEN Redact(raw.impact, patterns) ELSE @,
                 !.details = IF raw.details # <<>> THEN Redact(raw.details, patterns) ELSE @]

\* mergeTags with the incoming tag lower-cased and the existing ones not.
RECURSIVE mergeTagsExistingAsWritten(_, _)
mergeTagsExistingAsWritten(existing, extra) ==
  IF extra = <<>> THEN existing
  ELSE IF Lower(Head(extra)) \in {existing[i] : i \in 1..Len(existing)}
       THEN mergeTagsExistingAsWritten(existing, Tail(extra))
       ELSE mergeTagsExistingAsWritten(Append(existing, Head(extra)), Tail(extra))

\* mergeTags: the existing tags copied as they are, then each extra tag
\* whose lower-cased form has not been seen, in order.
RECURSIVE mergeTags(_, _)
mergeTags(existing, extra) ==
  IF extra = <<>> THEN existing
  ELSE IF Lower(Head(extra)) \in {Lower(existing[i]) : i \in 1..Len(existing)}
       THEN mergeTags(existing, Tail(extra))
       ELSE mergeTags(Append(existing, Head(extra)), Tail(extra))

\* strings.TrimSpace on a token sequence.
RECURSIVE TrimSpace(_)
TrimSpace(s) ==
  IF s # <<>> /\ Head(s) = WS THEN TrimSpace(Tail(s))
  ELSE IF s # <<>> /\ s[Len(s)] = WS THEN TrimSpace(SubSeq(s, 1, Len(s) - 1))
  ELSE s

\* strings.EqualFold
EqualFold(a, b) ==
  [i \in 1..Len(a) |-> Lower(a[i])] = [i \in 1..Len(b) |-> Lower(b[i])]

\* The configured provider, when one is configured.
HasProvider == provider.kind # "none"

\* A set-up that leaves the cached flag alone on a dimension mismatch.
ensureVectorsKeepsFlag(d, vok, embedding) ==
  LET e == EnsureVecTable(d, Len(embedding))
  IN IF e.err = "DimensionMismatch" THEN [db |-> d, ok |-> FALSE, vok |-> vok]
     ELSE [db |-> e.db, ok |-> TRUE, vok |-> "true"]

\* Result: [db, ok, vok]: the database, whether vectors can be written, and
\* the new cached flag.
ensureVectors(d, vok, embedding) ==
  LET e == EnsureVecTable(d, Len(embedding))
  IN IF e.err = "DimensionMismatch" THEN [db |-> d, ok |-> FALSE, vok |-> "false"]
     ELSE [db |-> e.db, ok |-> TRUE, vok |-> "true"]

\* A dedup decision that compares the titles byte for byte.
DedupIsUpdateExactTitle(d, r, candidates, wider) ==
  /\ Len(candidates) > 0
  /\ LET broad == IF Len(candidates) = 1 /\ Len(wider) > 0 THEN wider ELSE candidates
     IN /\ \E i \in 1..Len(broad) : broad[i].num > 0
        /\ 10 * candidates[1].num >= 7 * MaxScore(broad)
        /\ r.title = d.memories[candidates[1].rowid].title

\* A dedup decision that never runs the probe without the project filter.
DedupIsUpdateNarrow(d, r, candidates, wider) ==
  /\ Len(candidates) > 0
  /\ \E i \in 1..Len(candidates) : candidates[i].num > 0
  /\ 10 * candidates[1].num >= 7 * MaxScore(candidates)
  /\ EqualFold(TrimSpace(r.title), TrimSpace(d.memories[candidates[1].rowid].title))

\* The dedup decision of Save for redacted input r: given the project probe's
\* rows and the rows of the wider probe, TRUE when Save takes the update path.
DedupIsUpdate(d, r, candidates, wider) ==
  /\ Len(candidates) > 0
  /\ LET broad == IF Len(candidates) = 1 /\ Len(wider) > 0 THEN wider ELSE candidates
         maxScore == MaxScore(broad)
         anyPositive == \E i \in 1..Len(broad) : broad[i].num > 0
         top == candidates[1]
         topTitle == d.memories[top.rowid].title
     IN /\ anyPositive
        /\ 10 * top.num >= 7 * maxScore
        /\ EqualFold(TrimSpace(r.title), TrimSpace(topTitle))

\* models.FromRaw plus the columns InsertMemory writes.
FromRaw(r, project, id, day) ==
  [id |-> id, title |-> r.title, what |-> r.what, why |-> r.why, impact |-> r.impact,
   tags |-> JsonMarshal(r.tags), category |-> r.category, project |-> project,
   file_path |-> <<project, day>>, created_at |-> day, updated_count |-> 0]

\* The Memory struct handed to the emitter (tags still a slice).
MemOf(r, project) == [r EXCEPT !.details = <<>>] @@ [project |-> project]

\* What an operation returned, as the caller sees it, with what the
\* operation was given; oldDim is the embedding_dim persisted before it ran.
Result(op, ok, action, id, r, project) ==
  [op |-> op, ok |-> ok, action |-> action, id |-> id,
   title |-> r.title, what |-> r.what, project |-> project,
   results |-> <<>>, vecUsed |-> FALSE, embedCalled |-> FALSE, n |-> 0, oldDim |-> 0,
   topup |-> FALSE, category |-> ""]

\* The re-embed of Save's update path and of reembedMemory: Embed, then
\* ensureVectors, GetMemory by exact id, InsertVector.  Result: [db, vok].
Reembed(d, vok, id, text, embedOK) ==
  IF ~HasProvider \/ ~embedOK THEN [db |-> d, vok |-> vok]
  ELSE LET embedding == Embed(text, provider.dim)
           ev == ensureVectors(d, vok, embedding)
           mem == GetMemory(ev.db, id)
       IN IF ~ev.ok \/ ~mem.found THEN [db |-> ev.db, vok |-> ev.vok]
          ELSE [db |-> InsertVector(ev.db, mem.rowid, embedding).db, vok |-> ev.vok]

\* Save's update path on the top candidate.
SaveUpdate(d, fs, vok, r, project, top, embedOK) ==
  LET existing == d.memories[top.rowid]
      mergedTags == mergeTags(JsonUnmarshal(existing.tags), r.tags)
      detailsAppend == IF r.details # <<>> THEN Divider(now) \o r.details ELSE <<>>
      pick == CHOOSE x \in LikeMatches(d, existing.id) : d.memories[x].id = existing.id
      u == UpdateMemory(d, existing.id, pick, r.what, r.why, r.impact, mergedTags, detailsAppend)
      text == EmbedText(existing.title, r.what, r.why, r.impact, mergedTags)
      e == Reembed(u.db, vok, existing.id, text, embedOK)
  IN [db |-> e.db, files |-> fs, vok |-> e.vok,
      res |-> Result("save", TRUE, "updated", existing.id, r, project)]

\* A create path that calls the provider and prepares the vector table
\* before it writes the section and the row.
SaveCreateEmbedsFirst(d, fs, vok, r, project, id, embedOK, fault) ==
  LET mem == FromRaw(r, project, id, now)
      fs1 == WriteSessionMemory(fs, MemOf(r, project), now, r.details)
      text == EmbedText(r.title, r.what, r.why, r.impact, r.tags)
      embedding == Embed(text, provider.dim)
      ev == IF ~HasProvider \/ ~embedOK THEN [db |-> d, ok |-> FALSE, vok |-> vok]
            ELSE ensureVectors(d, vok, embedding)
      ins == InsertMemory(ev.db, mem, r.details)
      d3 == IF ev.ok THEN InsertVector(ins.db, ins.rowid, embedding).db ELSE ins.db
  IN IF fault = "markdown"
     THEN [db |-> ev.db, files |-> fs, vok |-> ev.vok,
           res |-> Result("save", FALSE, "", <<>>, r, project)]
     ELSE IF fault = "insert"
     THEN [db |-> ev.db, files |-> fs1, vok |-> ev.vok,
           res |-> Result("save", FALSE, "", <<>>, r, project)]
     ELSE [db |-> d3, files |-> fs1, vok |-> ev.vok,
           res |-> Result("save", TRUE, "created", id, r, project)]

\* Save's create path.  fault names the step that fails with an I/O or
\* storage error: "markdown", "insert" or "none".
SaveCreate(d, fs, vok, r, project, id, embedOK, fault) ==
  LET mem == FromRaw(r, project, id, now)
      fs1 == WriteSessionMemory(fs, MemOf(r, project), now, r.details)
      ins == InsertMemory(d, mem, r.details)
      text == EmbedText(r.title, r.what, r.why, r.impact, r.tags)
      embedding == Embed(text, provider.dim)
      ev == ensureVectors(ins.db, vok, embedding)
      d3 == IF ev.ok THEN InsertVector(ev.db, ins.rowid, embedding).db ELSE ev.db
  IN IF fault = "markdown"
     THEN [db |-> d, files |-> fs, vok |-> vok,
           res |-> Result("save", FALSE, "", <<>>, r, project)]
     ELSE IF fault = "insert"
     THEN [db |-> d, files |-> fs1, vok |-> vok,
           res |-> Result("save", FALSE, "", <<>>, r, project)]
     ELSE IF ~HasProvider \/ ~embedOK
     THEN [db |-> ins.db, files |-> fs1, vok |-> vok,
           res |-> Result("save", TRUE, "created", id, r, project)]
     ELSE [db |-> d3, files |-> fs1, vok |-> ev.vok,
           res |-> Result("save", TRUE, "created", id, r, project)]

\* The possible outcomes [db, files, vok, res] of Save(raw, project).
\* id is the UUID FromRaw would draw.
SaveOutcomes(d, fs, vok, raw, project, id, embedOK, fault) ==
  LET r == RedactRaw(raw)
      dedupQuery == r.title \o <<WS>> \o r.what
  IN IF project = ""
     THEN {[db |-> d, files |-> fs, vok |-> vok,
            res |-> Result("save", FALSE, "", <<>>, raw, project)]}
     ELSE UNION {
       IF DedupIsUpdate(d, r, candidates, wider)
       THEN IF d.memories[candidates[1].rowid].updated_count < MaxUpdated
            THEN {SaveUpdate(d, fs, vok, r, project, candidates[1], embedOK)}
            ELSE {}
       ELSE IF d.seq < MaxRowid /\ id \notin Ids(d)
               /\ (fault = "none" \/ Sections(fs) < MaxSections)
            THEN {SaveCreate(d, fs, vok, r, project, id, embedOK, fault)}
            ELSE {}
       : <<candidates, wider>> \in FTSSearch(d, dedupQuery, 5, project)
                                   \X FTSSearch(d, dedupQuery, 5, "")}

\* Save's update path when statement failAt of UpdateMemory returns an
\* error: Save returns the wrapped error before the re-embed.
SaveUpdateFailing(d, fs, vok, r, project, top, failAt) ==
  LET existing == d.memories[top.rowid]
      mergedTags == mergeTags(JsonUnmarshal(existing.tags), r.tags)
      detailsAppend == IF r.details # <<>> THEN Divider(now) \o r.details ELSE <<>>
      pick == CHOOSE x \in LikeMatches(d, existing.id) : d.memories[x].id = existing.id
      u == UpdateMemoryFailing(d, existing.id, pick, r.what, r.why, r.impact,
                               mergedTags, detailsAppend, failAt)
  IN IF u.err
     THEN [db |-> u.db, files |-> fs, vok |-> vok,
           res |-> [Result("save", FALSE, "StorageError", existing.id, r, project)
                      EXCEPT !.n = failAt]]
     ELSE [db |-> u.db, files |-> fs, vok |-> vok,
           res |-> Result("save", TRUE, "updated", existing.id, r, project)]

\* A replace that reports "replaced" for an id that resolves to nothing.
ReplaceOutcomesAlwaysFound(d, vok, id, raw, embedOK) ==
  LET r == RedactRaw(raw)
      text == EmbedText(r.title, r.what, r.why, r.impact, r.tags)
  IN IF LikeMatches(d, id) = {}
     THEN {[db |-> d, vok |-> vok, res |-> Result("replace", TRUE, "replaced", id, r, "")]}
     ELSE {LET rep == ReplaceMemory(d, id, pick, r.title, r.what, r.why, r.impact,
                                    r.tags, r.category, r.details)
               e == Reembed(rep.db, vok, id, text, embedOK)
           IN [db |-> e.db, vok |-> e.vok,
               res |-> Result("replace", TRUE, "replaced", id, r, "")]
             : pick \in {x \in LikeMatches(d, id) : d.memories[x].updated_count < MaxUpdated}}

\* The possible outcomes of Replace(id, raw).
ReplaceOutcomes(d, vok, id, raw, embedOK) ==
  LET r == RedactRaw(raw)
      text == EmbedText(r.title, r.what, r.why, r.impact, r.tags)
  IN IF LikeMatches(d, id) = {}
     THEN {[db |-> d, vok |-> vok, res |-> Result("replace", FALSE, "NotFound", id, r, "")]}
     ELSE {LET rep == ReplaceMemory(d, id, pick, r.title, r.what, r.why, r.impact,
                                    r.tags, r.category, r.details)
               e == Reembed(rep.db, vok, id, text, embedOK)
           IN [db |-> e.db, vok |-> e.vok,
               res |-> Result("replace", TRUE, "replaced", id, r, "")]
             : pick \in {x \in LikeMatches(d, id) : d.memories[x].updated_count < MaxUpdated}}

\* The possible outcomes of Reindex.  budget is the number of Embed calls
\* the provider answers before it fails (the probe is the first call).
RECURSIVE ReindexLoop(_, _, _, _)
ReindexLoop(d, rowids, budget, dim) ==
  IF rowids = <<>> THEN [db |-> d, err |-> ""]
  ELSE IF budget = 0 THEN [db |-> d, err |-> "Embed"]
  ELSE LET m == d.memories[Head(rowids)]
           text == EmbedText(m.title, m.what, m.why, m.impact, JsonUnmarshal(m.tags))
           iv == InsertVector(d, Head(rowids), Embed(text, dim))
       IN IF iv.err # "" THEN [db |-> iv.db, err |-> iv.err]
          ELSE ReindexLoop(iv.db, Tail(rowids), budget - 1, dim)

\* A reindex that does not persist the probed dimension.
ReindexKeepsDim(d, vok, budget) ==
  IF ~HasProvider THEN [db |-> d, vok |-> vok, err |-> "no provider"]
  ELSE IF budget = 0 THEN [db |-> d, vok |-> vok, err |-> "probe"]
  ELSE LET dim == Len(Embed(<<"dimension", "probe">>, provider.dim))
           d1 == createVecTable(DropVecTable(d), dim)
           loop == ReindexLoop(d1, ListAllForReindex(d1), budget - 1, provider.dim)
       IN IF loop.err # "" THEN [db |-> loop.db, vok |-> vok, err |-> loop.err]
          ELSE [db |-> loop.db, vok |-> "true", err |-> ""]

\* A reindex that leaves the cached vectors flag as it was.
ReindexLeavesFlag(d, vok, budget) ==
  IF ~HasProvider THEN [db |-> d, vok |-> vok, err |-> "no provider"]
  ELSE IF budget = 0 THEN [db |-> d, vok |-> vok, err |-> "probe"]
  ELSE LET dim == Len(Embed(<<"dimension", "probe">>, provider.dim))
           d1 == createVecTable(SetEmbeddingDim(DropVecTable(d), dim), dim)
           loop == ReindexLoop(d1, ListAllForReindex(d1), budget - 1, provider.dim)
       IN [db |-> loop.db, vok |-> vok, err |-> loop.err]

\* A reindex that empties the vector table again when an Embed call fails.
ReindexDropsOnError(d, vok, budget) ==
  IF ~HasProvider THEN [db |-> d, vok |-> vok, err |-> "no provider"]
  ELSE IF budget = 0 THEN [db |-> d, vok |-> vok, err |-> "probe"]
  ELSE LET dim == Len(Embed(<<"dimension", "probe">>, provider.dim))
           d1 == createVecTable(SetEmbeddingDim(DropVecTable(d), dim), dim)
           loop == ReindexLoop(d1, ListAllForReindex(d1), budget - 1, provider.dim)
       IN IF loop.err # "" THEN [db |-> d1, vok |-> vok, err |-> loop.err]
          ELSE [db |-> loop.db, vok |-> "true", err |-> ""]

Reindex(d, vok, budget) ==
  IF ~HasProvider THEN [db |-> d, vok |-> vok, err |-> "no provider"]
  ELSE IF budget = 0 THEN [db |-> d, vok |-> vok, err |-> "probe"]
  ELSE LET dim == Len(Embed(<<"dimension", "probe">>, provider.dim))
           d1 == createVecTable(SetEmbeddingDim(DropVecTable(d), dim), dim)
           loop == ReindexLoop(d1, ListAllForReindex(d1), budget - 1, provider.dim)
       IN IF loop.err # "" THEN [db |-> loop.db, vok |-> vok, err |-> loop.err]
          ELSE [db |-> loop.db, vok |-> "true", err |-> ""]

\* vectorsAvailable: the cached flag, filled from HasVecTable on first use.
\* Result: [ok, vok].
vectorsAvailable(d, vok) ==
  IF vok # "nil" THEN [ok |-> vok = "true", vok |-> vok]
  ELSE [ok |-> HasVecTable(d), vok |-> IF HasVecTable(d) THEN "true" ELSE "false"]

\* A search that hands the provider to HybridSearch and has no fallback.
SearchOutcomesHybrid(d, vok, query, limit, project, useVectors, embedOK) ==
  IF ~useVectors
  THEN {[vok |-> vok, out |-> o] : o \in HybridSearch(d, FALSE, FALSE, 0, query, limit, project)}
  ELSE {[vok |-> vok, out |-> o]
          : o \in HybridSearch(d, HasProvider, embedOK, provider.dim, query, limit, project)}

\* The possible outcomes [vok, out] of Search; out is a search outcome.
SearchOutcomes(d, vok, query, limit, project, useVectors, embedOK) ==
  IF ~useVectors
  THEN {[vok |-> vok, out |-> o] : o \in HybridSearch(d, FALSE, FALSE, 0, query, limit, project)}
  ELSE LET va == vectorsAvailable(d, vok)
           first == TieredSearch(d, HasProvider, embedOK, provider.dim, query, limit, 0, project)
           fallback == TieredSearch(d, FALSE, FALSE, 0, query, limit, 0, project)
       IN IF va.ok
          THEN {[vok |-> va.vok, out |-> o] : o \in {x \in first : x.err = ""}}
               \cup (IF \E x \in first : x.err # ""
                     THEN {[vok |-> va.vok, out |-> o] : o \in fallback} ELSE {})
          ELSE {[vok |-> va.vok, out |-> o] : o \in fallback}

\* The category handleSave and handleReplace hand on, left as given.
ToolCategoryAsGiven(category) == category

\* isValidCategory and the fallback of handleSave and handleReplace.
ToolCategory(category) ==
  IF \E i \in 1..Len(ValidCategories) : ValidCategories[i] = category
  THEN category ELSE "context"

\* The title length the tool handlers cut to.
TitleLimit == 60

\* truncate(s, maxLen) of the tool server, on characters (runes).
truncate(s, maxLen) == IF Len(s) > maxLen THEN SubSeq(s, 1, maxLen) ELSE s

\* The title InsertMemory or ReplaceMemory is handed when the request
\* carries title: the tool handlers (memory_save, memory_replace) cut it
\* first, the save command passes it as typed; Save and Replace redact it.
PersistedTitle(surface, title) ==
  IF surface = "tool" THEN RedactChars(truncate(title, TitleLimit), IgnoreChars)
  ELSE RedactChars(title, IgnoreChars)

\* shouldUseSemantic: loaded is the answer of the Ollama probe, TRUE for
\* every other provider.
shouldUseSemantic(mode, loaded) ==
  CASE mode = "never" -> FALSE
    [] mode = "always" -> TRUE
    [] OTHER -> loaded

\* A top-up loop that appends the recent rows the search had found too.
RECURSIVE TopUpKeepsSeen(_, _, _, _)
TopUpKeepsSeen(out, seen, recent, limit) ==
  IF recent = <<>> THEN out
  ELSE LET o == Append(out, Head(recent))
       IN IF Len(o) >= limit THEN o ELSE TopUpKeepsSeen(o, seen, Tail(recent), limit)

\* The top-up loop of GetContext: seen holds the ids of the search
\* results; a recent row that is seen is skipped, any other is appended,
\* and the loop ends once out has limit entries.
RECURSIVE TopUp(_, _, _, _)
TopUp(out, seen, recent, limit) ==
  IF recent = <<>> THEN out
  ELSE IF Head(recent) \in seen THEN TopUp(out, seen, Tail(recent), limit)
  ELSE LET o == Append(out, Head(recent))
       IN IF Len(o) >= limit THEN o ELSE TopUp(o, seen, Tail(recent), limit)

\* The possible outcomes [vok, err, total, found, out] of GetContext: found
\* is what Search returned and out the returned list, both as rowids.  The
\* configured mode is "auto".
GetContextOutcomes(d, vok, limit, project, query, semanticMode, loaded, topupRecent, embedOK) ==
  LET total == Cardinality(ProjectRows(d, project))
      mode == IF semanticMode \in {"auto", "always", "never"} THEN semanticMode ELSE "auto"
  IN IF query # <<>>
     THEN UNION {
       IF o.out.err # ""
       THEN {[vok |-> o.vok, err |-> o.out.err, total |-> total, found |-> <<>>, out |-> <<>>]}
       ELSE LET found == [i \in 1..Len(o.out.results) |-> o.out.results[i].rowid]
                seen == {found[i] : i \in 1..Len(found)}
            IN IF topupRecent /\ Len(found) < limit
               THEN {[vok |-> o.vok, err |-> "", total |-> total, found |-> found,
                      out |-> TopUp(found, seen, recent, limit)]
                       : recent \in ListRecent(d, limit, project)}
               ELSE {[vok |-> o.vok, err |-> "", total |-> total, found |-> found, out |-> found]}
       : o \in SearchOutcomes(d, vok, query, limit, project,
                              shouldUseSemantic(mode, loaded), embedOK)}
     ELSE {[vok |-> vok, err |-> "", total |-> total, found |-> <<>>, out |-> recent]
             : recent \in ListRecent(d, limit, project)}

\* db.Open on an existing file: createSchema recreates the vec table when a
\* dimension is persisted.
OpenDB(d) ==
  LET dim == GetEmbeddingDim(d)
  IN IF dim.ok THEN createVecTable(d, dim.dim) ELSE d

\* ------------------------------------------------------------------------
\* Actions
\* ------------------------------------------------------------------------
NoOp == Result("none", TRUE, "", <<>>, [title |-> <<>>, what |-> <<>>], "")

\* The tasks that call the service in parallel.
Tasks == {1, 2}

\* A task between calls.  In a call, pc is its position and the other
\* fields are its locals; action is what a save will return.
IdleTask ==
  [pc |-> "idle", r |-> NoOp, project |-> "", id |-> <<>>, rowid |-> 0,
   top |-> <<>>, read |-> <<>>, rows |-> <<>>, action |-> ""]

NoTasks == [t \in Tasks |-> IdleTask]

\* The id newUUID() draws in the model: the first one not in use.
NextId(d) ==
  LET free == IDs \ Ids(d)
      ord(i) == (IF i[1] = "a" THEN 0 ELSE 2) + (IF i[2] = "a" THEN 0 ELSE 1)
  IN CHOOSE i \in free : \A j \in free : ord(i) <= ord(j)

Save(raw, project, embedOK, fault) ==
  /\ IDs \ Ids(db) # {}
  /\ \E o \in SaveOutcomes(db, files, vectorsOK, raw, project, NextId(db), embedOK, fault) :
       /\ db' = o.db
       /\ files' = o.files
       /\ vectorsOK' = o.vok
       /\ lastOp' = o.res
       /\ logCount' = IF o.res.ok /\ o.res.action = "created" THEN logCount + 1 ELSE logCount
  /\ UNCHANGED <<provider, now, ignoreFile, tasks>>

Replace(id, raw, embedOK) ==
  /\ \E o \in ReplaceOutcomes(db, vectorsOK, id, raw, embedOK) :
       /\ db' = o.db
       /\ vectorsOK' = o.vok
       /\ lastOp' = o.res
  /\ UNCHANGED <<files, provider, now, ignoreFile, tasks, logCount>>

Delete(id) ==
  /\ \E pick \in IF LikeMatches(db, id) = {} THEN {0} ELSE LikeMatches(db, id) :
       LET del == DeleteMemory(db, id, pick)
       IN /\ db' = del.db
          /\ lastOp' = Result("delete", del.found, "", id, NoOp, "")
          /\ logCount' = IF del.found THEN logCount - 1 ELSE logCount
  /\ UNCHANGED <<files, vectorsOK, provider, now, ignoreFile, tasks>>

\* clamp(limit, n) as the searches call it: results holds the two
\* arguments and the value returned.
ClampOp(limit, n) ==
  /\ lastOp' = [Result("clamp", TRUE, "", <<>>, NoOp, "")
                  EXCEPT !.results = <<limit, n, clamp(limit, n)>>]
  /\ UNCHANGED <<db, files, vectorsOK, provider, now, logCount, ignoreFile, tasks>>

\* get_details(id): the detail body of the first match.
GetDetailsOp(id) ==
  /\ \E g \in GetDetails(db, id) :
       lastOp' = [Result("get_details", g.found, "", id, NoOp, "")
                    EXCEPT !.results = IF g.found THEN <<g.memory_id>> ELSE <<>>,
                           !.what = g.body]
  /\ UNCHANGED <<db, files, vectorsOK, provider, now, logCount, ignoreFile, tasks>>

\* Save(raw, project) taking the update path while statement failAt of
\* UpdateMemory returns an error (no provider call is reached).
SaveUpdateFails(raw, project, failAt) ==
  /\ LET r == RedactRaw(raw)
         dedupQuery == r.title \o <<WS>> \o r.what
     IN \E candidates \in FTSSearch(db, dedupQuery, 5, project) :
        \E wider \in FTSSearch(db, dedupQuery, 5, "") :
          /\ DedupIsUpdate(db, r, candidates, wider)
          /\ db.memories[candidates[1].rowid].updated_count < MaxUpdated
          /\ LET o == SaveUpdateFailing(db, files, vectorsOK, r, project,
                                        candidates[1], failAt)
             IN /\ o.res.action = "StorageError"
                /\ db' = o.db
                /\ lastOp' = o.res
  /\ UNCHANGED <<files, vectorsOK, provider, now, ignoreFile, tasks, logCount>>

\* Replace(id, raw) while statement failAt of ReplaceMemory returns an
\* error: Replace returns the wrapped error before the re-embed.
ReplaceFails(id, raw, failAt) ==
  /\ \E pick \in {x \in LikeMatches(db, id) : db.memories[x].updated_count < MaxUpdated} :
       LET r == RedactRaw(raw)
           rep == ReplaceMemoryFailing(db, id, pick, r.title, r.what, r.why, r.impact,
                                       r.tags, r.category, r.details, failAt)
       IN /\ rep.err
          /\ db' = rep.db
          /\ lastOp' = [Result("replace", FALSE, "StorageError", id, r, "")
                          EXCEPT !.n = failAt]
  /\ UNCHANGED <<files, vectorsOK, provider, now, ignoreFile, tasks, logCount>>

\* Delete(id) while statement failAt of DeleteMemory returns an error.
DeleteFails(id, failAt) ==
  /\ \E pick \in LikeMatches(db, id) :
       LET del == DeleteMemoryFailing(db, id, pick, failAt)
       IN /\ db' = del.db
          /\ lastOp' = [Result("delete", del.found,
                               IF del.err THEN "StorageError" ELSE "VecCleanupSkipped",
                               id, NoOp, "")
                          EXCEPT !.n = failAt]
          /\ logCount' = IF del.found THEN logCount - 1 ELSE logCount
  /\ UNCHANGED <<files, vectorsOK, provider, now, ignoreFile, tasks>>

\* redaction.Redact(text, patterns) called on its own, on the text of the
\* call before with one more piece at its end; n counts the pieces.
RedactOp(piece) ==
  /\ lastOp.op \in {"none", "redact"}
  /\ lastOp.n < MaxPieces
  /\ LET text == lastOp.title \o piece
     IN lastOp' = [Result("redact", TRUE, "", <<>>,
                          [title |-> text, what |-> RedactChars(text, IgnoreChars)], "")
                     EXCEPT !.n = lastOp.n + 1]
  /\ UNCHANGED <<db, files, vectorsOK, provider, now, ignoreFile, tasks, logCount>>

\* mergeTags(existing, extra) called on its own, on the lists of the call
\* before with one more tag at the end of one of them.
MergeTagsOp(side, tag) ==
  /\ lastOp.op \in {"none", "merge_tags"}
  /\ LET existing == IF side = "existing" THEN Append(lastOp.title, tag) ELSE lastOp.title
         extra == IF side = "extra" THEN Append(lastOp.what, tag) ELSE lastOp.what
     IN /\ Len(existing) <= MaxTags /\ Len(extra) <= MaxTags
        /\ lastOp' = [Result("merge_tags", TRUE, "", <<>>,
                             [title |-> existing, what |-> extra], "")
                        EXCEPT !.results = mergeTags(existing, extra)]
  /\ UNCHANGED <<db, files, vectorsOK, provider, now, ignoreFile, tasks, logCount>>

\* Days are counted at their start and the call comes later in the day:
\* the cutoff now - olderThanDays days lies after the rows written on day
\* now - olderThanDays.
DeleteByFilterOp(project, category, olderThanDays) ==
  /\ LET del == DeleteByFilter(db, project, category, now + 1 - olderThanDays)
     IN /\ db' = del.db
        /\ lastOp' = [Result("delete_by_filter", TRUE, "", <<>>, NoOp, project) EXCEPT !.n = del.n]
        /\ logCount' = logCount - del.n
  /\ UNCHANGED <<files, vectorsOK, provider, now, ignoreFile, tasks>>

ReindexOp(budget) ==
  /\ LET ri == Reindex(db, vectorsOK, budget)
     IN /\ db' = ri.db
        /\ vectorsOK' = ri.vok
        /\ lastOp' = [Result("reindex", ri.err = "", ri.err, <<>>, NoOp, "")
                        EXCEPT !.n = IF ri.err = "" THEN CountMemories(db) ELSE 0,
                               !.oldDim = GetEmbeddingDim(db).dim]
  /\ UNCHANGED <<files, provider, now, ignoreFile, tasks, logCount>>

SearchOp(query, limit, project, useVectors, embedOK) ==
  /\ \E o \in SearchOutcomes(db, vectorsOK, query, limit, project, useVectors, embedOK) :
       /\ vectorsOK' = o.vok
       /\ lastOp' = [Result("search", o.out.err = "", o.out.err, <<>>,
                            [title |-> query, what |-> <<>>], project)
                       EXCEPT !.results = [i \in 1..Len(o.out.results) |->
                                             db.memories[o.out.results[i].rowid].id],
                              !.vecUsed = o.out.vecUsed,
                              !.embedCalled = o.out.embedCalled,
                              !.n = limit]
  /\ UNCHANGED <<db, files, provider, now, ignoreFile, tasks, logCount>>

\* GetContext as the caller sees it: title is the query, what the ids the
\* search returned, results the ids of the returned list, n the limit.
GetContextOp(limit, project, query, semanticMode, loaded, topupRecent, embedOK) ==
  /\ \E o \in GetContextOutcomes(db, vectorsOK, limit, project, query, semanticMode,
                                  loaded, topupRecent, embedOK) :
       /\ vectorsOK' = o.vok
       /\ lastOp' = [Result("get_context", o.err = "", o.err, <<>>,
                            [title |-> query,
                             what |-> [i \in 1..Len(o.found) |-> db.memories[o.found[i]].id]],
                            project)
                       EXCEPT !.results = [i \in 1..Len(o.out) |-> db.memories[o.out[i]].id],
                              !.n = limit,
                              !.topup = topupRecent]
  /\ UNCHANGED <<db, files, provider, now, ignoreFile, tasks, logCount>>

\* A save through the tool server or the save command, followed on its
\* title alone: the title of the call before with one more piece at its
\* end.  title is the title given, what the title persisted.
SaveTitleOp(surface, piece) ==
  /\ lastOp.op \in {"none", "tool_save", "cli_save"}
  /\ lastOp.n < MaxTitlePieces
  /\ LET title == lastOp.title \o piece
     IN lastOp' = [Result(IF surface = "tool" THEN "tool_save" ELSE "cli_save", TRUE,
                          "created", <<>>,
                          [title |-> title, what |-> PersistedTitle(surface, title)], "p1")
                     EXCEPT !.n = lastOp.n + 1]
  /\ UNCHANGED <<db, files, vectorsOK, provider, now, ignoreFile, tasks, logCount>>

\* The memory_save tool: project is required, the category falls back to
\* "context", then Save.  The titles followed here are shorter than
\* TitleLimit and pass truncate as they are.  category is the one given.
handleSave(req, project) ==
  /\ IDs \ Ids(db) # {}
  /\ IF project = ""
     THEN /\ lastOp' = [Result("memory_save", FALSE, "project is required", <<>>, req, project)
                          EXCEPT !.category = req.category]
          /\ UNCHANGED <<db, files, vectorsOK, logCount>>
     ELSE \E o \in SaveOutcomes(db, files, vectorsOK,
                                [req EXCEPT !.category = ToolCategory(req.category)],
                                project, NextId(db), TRUE, "none") :
            /\ db' = o.db
            /\ files' = o.files
            /\ vectorsOK' = o.vok
            /\ lastOp' = [o.res EXCEPT !.op = "memory_save", !.category = req.category]
            /\ logCount' = IF o.res.ok /\ o.res.action = "created" THEN logCount + 1
                           ELSE logCount
  /\ UNCHANGED <<provider, now, ignoreFile, tasks>>

\* The memory_replace tool: id is required, the category falls back to
\* "context", then Replace.
handleReplace(id, req) ==
  /\ IF id = <<>>
     THEN /\ lastOp' = [Result("memory_replace", FALSE, "id is required", id, req, "")
                          EXCEPT !.category = req.category]
          /\ UNCHANGED <<db, vectorsOK>>
     ELSE \E o \in ReplaceOutcomes(db, vectorsOK, id,
                                   [req EXCEPT !.category = ToolCategory(req.category)], TRUE) :
            /\ db' = o.db
            /\ vectorsOK' = o.vok
            /\ lastOp' = [o.res EXCEPT !.op = "memory_replace", !.category = req.category]
  /\ UNCHANGED <<files, provider, now, ignoreFile, tasks, logCount>>

\* ------------------------------------------------------------------------
\* Calls made from parallel tasks.  Nothing in the service serializes whole
\* calls (its mutex guards single fields), so a call is a sequence of
\* steps, one per SQL statement group or file operation, and the steps of
\* different tasks interleave.
\* ------------------------------------------------------------------------
\* A call is taken by the first task that is free, while calls are left;
\* lastOp.n counts the calls begun.
Begins(t) ==
  /\ tasks[t].pc = "idle"
  /\ \A u \in Tasks : u < t => tasks[u].pc # "idle"
  /\ lastOp.n < MaxCalls
  /\ lastOp' = [lastOp EXCEPT !.op = "begun", !.n = @ + 1]

\* The ids FromRaw has drawn for rows not inserted yet.
DrawnIds == {tasks[u].id : u \in {x \in Tasks : tasks[x].pc \in {"save_read", "save_write", "save_insert"}}}

\* The id newUUID() draws while other tasks hold ids of their own: the
\* first one neither stored nor drawn.
NextIdPar ==
  LET free == IDs \ (Ids(db) \cup DrawnIds)
      ord(i) == (IF i[1] = "a" THEN 0 ELSE 2) + (IF i[2] = "a" THEN 0 ELSE 1)
  IN CHOOSE i \in free : \A j \in free : ord(i) <= ord(j)

\* Save up to its dedup decision: redaction and the two probes, then
\* either the update path with the top candidate as the probe returned
\* it, or FromRaw with a fresh id.
SaveBegin(t, raw, project) ==
  /\ Begins(t)
  /\ LET r == RedactRaw(raw)
         dedupQuery == r.title \o <<WS>> \o r.what
         free == IDs \ (Ids(db) \cup DrawnIds)
     IN \E candidates \in FTSSearch(db, dedupQuery, 5, project) :
        \E wider \in FTSSearch(db, dedupQuery, 5, "") :
          IF DedupIsUpdate(db, r, candidates, wider)
          THEN /\ db.memories[candidates[1].rowid].updated_count < MaxUpdated
               /\ tasks' = [tasks EXCEPT ![t] =
                    [@ EXCEPT !.pc = "save_update", !.r = r,
                              !.project = project, !.action = "updated",
                              !.id = db.memories[candidates[1].rowid].id,
                              !.top = db.memories[candidates[1].rowid]]]
          ELSE /\ db.seq + Cardinality(DrawnIds) < MaxRowid
               /\ free # {}
               /\ tasks' = [tasks EXCEPT ![t] =
                    [@ EXCEPT !.pc = "save_read", !.r = r,
                              !.project = project, !.action = "created",
                              !.id = NextIdPar]]
  /\ UNCHANGED <<db, files, vectorsOK, provider, now, logCount, ignoreFile>>

\* WriteSessionMemory up to the content it will write: os.Stat and
\* os.ReadFile.
SaveRead(t) ==
  /\ tasks[t].pc = "save_read"
  /\ LET path == <<tasks[t].project, now>>
     IN tasks' = [tasks EXCEPT ![t] =
          [@ EXCEPT !.pc = "save_write",
                    !.read = IF path \in DOMAIN files
                             THEN [exists |-> TRUE, file |-> files[path]]
                             ELSE [exists |-> FALSE, file |-> <<>>]]]
  /\ UNCHANGED <<db, files, vectorsOK, provider, now, lastOp, logCount, ignoreFile>>

\* os.WriteFile of the content made from what was read.
SaveWrite(t) ==
  /\ tasks[t].pc = "save_write"
  /\ LET path == <<tasks[t].project, now>>
         r == tasks[t].r
         mem == MemOf(r, tasks[t].project)
         section == RenderSection(mem, r.details)
         content == IF tasks[t].read.exists
                    THEN appendToSessionFile(tasks[t].read.file, mem, section)
                    ELSE createNewSessionFile(mem, now, section)
     IN files' = Upsert(files, path, content)
  /\ tasks' = [tasks EXCEPT ![t] = [@ EXCEPT !.pc = "save_insert"]]
  /\ UNCHANGED <<db, vectorsOK, provider, now, lastOp, logCount, ignoreFile>>

\* InsertMemory; without a provider Save returns here.
SaveInsert(t) ==
  /\ tasks[t].pc = "save_insert"
  /\ LET r == tasks[t].r
         ins == InsertMemory(db, FromRaw(r, tasks[t].project, tasks[t].id, now), r.details)
     IN /\ db' = ins.db
        /\ IF HasProvider
           THEN /\ tasks' = [tasks EXCEPT ![t] = [@ EXCEPT !.pc = "save_vector",
                                                            !.rowid = ins.rowid]]
           ELSE /\ tasks' = [tasks EXCEPT ![t] = IdleTask]
  /\ logCount' = logCount + 1
  /\ UNCHANGED <<files, vectorsOK, provider, now, lastOp, ignoreFile>>

\* UpdateMemory with the tags of the candidate as the probe returned them;
\* Save does not look at whether a row was found.
SaveUpdateStep(t) ==
  /\ tasks[t].pc = "save_update"
  /\ LET r == tasks[t].r
         mergedTags == mergeTags(JsonUnmarshal(tasks[t].top.tags), r.tags)
         detailsAppend == IF r.details # <<>> THEN Divider(now) \o r.details ELSE <<>>
     IN \E pick \in IF LikeMatches(db, tasks[t].id) = {} THEN {0}
                    ELSE LikeMatches(db, tasks[t].id) :
          db' = UpdateMemory(db, tasks[t].id, pick, r.what, r.why, r.impact,
                             mergedTags, detailsAppend).db
  /\ IF HasProvider
     THEN /\ tasks' = [tasks EXCEPT ![t] = [@ EXCEPT !.pc = "save_lookup"]]
     ELSE /\ tasks' = [tasks EXCEPT ![t] = IdleTask]
  /\ UNCHANGED <<files, vectorsOK, provider, now, lastOp, logCount, ignoreFile>>

\* The re-embed of the update path up to the row number: Embed,
\* ensureVectors, GetMemory.
SaveLookup(t) ==
  /\ tasks[t].pc = "save_lookup"
  /\ LET r == tasks[t].r
         mergedTags == mergeTags(JsonUnmarshal(tasks[t].top.tags), r.tags)
         embedding == Embed(EmbedText(tasks[t].top.title, r.what, r.why, r.impact, mergedTags),
                            provider.dim)
         ev == ensureVectors(db, vectorsOK, embedding)
         mem == GetMemory(ev.db, tasks[t].id)
     IN /\ db' = ev.db
        /\ vectorsOK' = ev.vok
        /\ IF ev.ok /\ mem.found
           THEN /\ tasks' = [tasks EXCEPT ![t] = [@ EXCEPT !.pc = "save_vector",
                                                            !.rowid = mem.rowid]]
           ELSE /\ tasks' = [tasks EXCEPT ![t] = IdleTask]
  /\ UNCHANGED <<files, provider, now, lastOp, logCount, ignoreFile>>

\* InsertVector with the row number the task holds; on the create path
\* Embed and ensureVectors come first.
SaveVector(t) ==
  /\ tasks[t].pc = "save_vector"
  /\ LET r == tasks[t].r
         created == tasks[t].action = "created"
         tags == IF created THEN r.tags
                 ELSE mergeTags(JsonUnmarshal(tasks[t].top.tags), r.tags)
         title == IF created THEN r.title ELSE tasks[t].top.title
         embedding == Embed(EmbedText(title, r.what, r.why, r.impact, tags), provider.dim)
         ev == IF created THEN ensureVectors(db, vectorsOK, embedding)
               ELSE [db |-> db, ok |-> TRUE, vok |-> vectorsOK]
     IN /\ db' = IF ev.ok THEN InsertVector(ev.db, tasks[t].rowid, embedding).db ELSE ev.db
        /\ vectorsOK' = ev.vok
  /\ tasks' = [tasks EXCEPT ![t] = IdleTask]
  /\ UNCHANGED <<files, provider, now, lastOp, logCount, ignoreFile>>

\* Delete(id) from a task, while other tasks may be in the middle of a call.
DeleteCall(t, id) ==
  /\ Begins(t)
  /\ \E pick \in IF LikeMatches(db, id) = {} THEN {0} ELSE LikeMatches(db, id) :
       LET del == DeleteMemory(db, id, pick)
       IN /\ db' = del.db
          /\ logCount' = IF del.found THEN logCount - 1 ELSE logCount
          /\ tasks' = [tasks EXCEPT ![t] =
               IdleTask]
  /\ UNCHANGED <<files, vectorsOK, provider, now, ignoreFile>>

\* Reindex up to its loop: the probe, the new vector table, the persisted
\* dimension and the listing of the rows with their texts.
ReindexBegin(t) ==
  /\ Begins(t)
  /\ HasProvider
  /\ LET dim == Len(Embed(<<"dimension", "probe">>, provider.dim))
         d1 == createVecTable(SetEmbeddingDim(DropVecTable(db), dim), dim)
         order == ListAllForReindex(d1)
         rows == [i \in 1..Len(order) |->
                   LET m == d1.memories[order[i]]
                   IN [rowid |-> order[i],
                       text |-> EmbedText(m.title, m.what, m.why, m.impact,
                                          JsonUnmarshal(m.tags))]]
     IN /\ db' = d1
        /\ IF rows = <<>>
           THEN /\ tasks' = [tasks EXCEPT ![t] = IdleTask]
                /\ vectorsOK' = "true"
           ELSE /\ tasks' = [tasks EXCEPT ![t] = [@ EXCEPT !.pc = "reindex_rows",
                                                            !.rows = rows]]
                /\ UNCHANGED vectorsOK
  /\ UNCHANGED <<files, provider, now, logCount, ignoreFile>>

\* One turn of Reindex's loop: Embed of the listed text and InsertVector
\* at the listed row number; after the last row the flag is set.
ReindexRow(t) ==
  /\ tasks[t].pc = "reindex_rows"
  /\ LET row == Head(tasks[t].rows)
         iv == InsertVector(db, row.rowid, Embed(row.text, provider.dim))
         last == Len(tasks[t].rows) = 1
     IN /\ db' = iv.db
        /\ IF iv.err # ""
           THEN /\ tasks' = [tasks EXCEPT ![t] = IdleTask]
                /\ UNCHANGED vectorsOK
           ELSE IF last
           THEN /\ tasks' = [tasks EXCEPT ![t] = IdleTask]
                /\ vectorsOK' = "true"
           ELSE /\ tasks' = [tasks EXCEPT ![t] = [@ EXCEPT !.rows = Tail(@)]]
                /\ UNCHANGED vectorsOK
  /\ UNCHANGED <<files, provider, now, lastOp, logCount, ignoreFile>>

\* Midnight UTC passes.
Tick ==
  /\ now < MaxDay
  /\ now' = now + 1
  /\ lastOp' = Result("tick", TRUE, "", <<>>, NoOp, "")
  /\ UNCHANGED <<db, files, vectorsOK, provider, logCount, ignoreFile, tasks>>

\* The process ends and a new one starts with configuration p.
Restart(p) ==
  /\ db' = OpenDB(db)
  /\ vectorsOK' = "nil"
  /\ provider' = p
  /\ lastOp' = Result("restart", TRUE, "", <<>>, NoOp, "")
  /\ UNCHANGED <<files, now, ignoreFile, tasks, logCount>>

NoProvider == [kind |-> "none", dim |-> 0]
Providers == {NoProvider} \cup {[kind |-> "remote", dim |-> n] : n \in Dims}

Init ==
  /\ db = EmptyDB
  /\ files = <<>>
  /\ vectorsOK = "nil"
  /\ provider = NoProvider
  /\ now = 0
  /\ lastOp = NoOp
  /\ logCount = 0
  /\ ignoreFile = MemoryIgnore
  /\ tasks = NoTasks

\* ------------------------------------------------------------------------
\* Specification of the dedup probe and the title search: saves of four
\* inputs into project p1, one of them also into p2, no embedding provider
\* configured; a search for the title just saved.
\* ------------------------------------------------------------------------
DedupInputs == {RawMake, RawMakeAgain, RawSql, RawCi}

\* search(title, 1, project, "", use_vectors=false) right after a save.
SearchSaved ==
  /\ lastOp.op = "save"
  /\ lastOp.ok
  /\ SearchOp(lastOp.title, 1, lastOp.project, FALSE, TRUE)

NextDedup ==
  \/ \E raw \in DedupInputs : Save(raw, "p1", TRUE, "none")
  \/ Save(RawSql, "p2", TRUE, "none")
  \/ SearchSaved

SpecDedup == Init /\ [][NextDedup]_vars

\* ------------------------------------------------------------------------
\* Specification of the storage life cycle: create, dedup-update, replace,
\* targeted and bulk delete, with failing writes, no embedding provider.
\* ------------------------------------------------------------------------
\* Ids and id prefixes a caller passes.
CrudIds == {<<"a">>, <<"b", "b">>}

Faults == {"none", "markdown", "insert"}

NextCrud ==
  \/ \E fault \in Faults : Save(RawSecret, "p1", TRUE, fault)
  \/ Save(RawMake, "p1", TRUE, "none")
  \/ Replace(<<"a", "a">>, RawSecret, TRUE)
  \/ \E id \in CrudIds : Delete(id)
  \/ DeleteByFilterOp("p1", "bug", 0)

SpecCrud == Init /\ [][NextCrud]_vars

\* ------------------------------------------------------------------------
\* Specification of the vector life cycle: a provider of width 4 or 8 is
\* configured at a restart; saves, replaces, deletes, reindex and search.
\* ------------------------------------------------------------------------
VecIds == {<<"a", "a">>, <<"a">>}

\* Embed calls a provider answers before it starts failing.
Budgets == {0, 1, 2, MaxVecRows + 1}

NextVec ==
  \/ \E embedOK \in BOOLEAN :
       Save(RawMake, "p1", embedOK, "none") /\ db'.seq <= MaxVecRows
  \/ Replace(<<"a", "a">>, RawSql, TRUE)
  \/ \E id \in VecIds : Delete(id)
  \/ DeleteByFilterOp("", "", 0)
  \/ \E budget \in Budgets : ReindexOp(budget)
  \/ SearchOp(<<"make">>, 5, "p1", TRUE, TRUE)
  \/ \E p \in Providers \ {NoProvider} : Restart(p)

SpecVec == Init /\ [][NextVec]_vars

\* ------------------------------------------------------------------------
\* Specification of search under a failing vector path: three memories
\* that all hold "make", a provider that is absent, of width 4 or of
\* width 8, whose Embed call answers or fails for a search; saves that
\* create, searches with and without use_vectors.
\* ------------------------------------------------------------------------
SearchInputs == {RawMake, RawSql, RawCi}

SearchLimits == {1, 2}

NextSearch ==
  \/ \E raw \in SearchInputs :
       Save(raw, "p1", TRUE, "none") /\ lastOp'.action = "created"
  \/ \E p \in Providers : Restart(p)
  \/ \E limit \in SearchLimits : \E useVectors \in BOOLEAN : \E embedOK \in BOOLEAN :
       SearchOp(<<"make">>, limit, "p1", useVectors, embedOK)

SpecSearch == Init /\ [][NextSearch]_vars

\* ------------------------------------------------------------------------
\* Specification of id-prefix resolution: memories with details and
\* vectors whose ids share the prefix "a", deleted and replaced by that
\* prefix and replaced by a full id.
\* ------------------------------------------------------------------------
PrefixInputs == {RawMakeAgain, RawSql}

ReplaceInputs == {RawSecret, RawCi}

\* Ids and id prefixes a caller passes to replace.
ReplaceIds == {<<"a">>, <<"a", "b">>}

NextPrefix ==
  \/ Restart([kind |-> "remote", dim |-> 4])
  \/ \E raw \in PrefixInputs :
       Save(raw, "p1", TRUE, "none") /\ db'.seq <= MaxVecRows
  \/ Delete(<<"a">>)
  \/ \E id \in ReplaceIds : \E raw \in ReplaceInputs : Replace(id, raw, TRUE)

SpecPrefix == Init /\ [][NextPrefix]_vars

\* ------------------------------------------------------------------------
\* Specification of storage operations with a failing statement: creating
\* saves with a provider of width 4, then an update, a replace or a delete
\* one of whose statements returns an error.
\* ------------------------------------------------------------------------
TxInputs == {RawMake, RawSecret}
TxReplaceInputs == {RawCi}
TxIds == {<<"a">>}
UpdateStatements == {1, 2}
DeleteStatements == {1, 2, 3}

NextTx ==
  \/ Restart([kind |-> "remote", dim |-> 4])
  \/ \E raw \in TxInputs :
       Save(raw, "p1", TRUE, "none") /\ lastOp'.action = "created"
                                     /\ db'.seq <= MaxVecRows
  \/ \E failAt \in UpdateStatements : SaveUpdateFails(RawMakeAgain, "p1", failAt)
  \/ \E id \in TxIds : \E raw \in TxReplaceInputs : \E failAt \in UpdateStatements :
       ReplaceFails(id, raw, failAt)
  \/ \E id \in TxIds : \E failAt \in DeleteStatements : DeleteFails(id, failAt)

SpecTx == Init /\ [][NextTx]_vars

\* ------------------------------------------------------------------------
\* Specification of redaction on its own: texts put together from whole
\* tags, halves of a tag, a token shape and the caller's literal.
\* ------------------------------------------------------------------------
Pieces ==
  {OpenChars, CloseChars, <<"<", "r", "e", "d", "a">>, <<"<", "/", "r", "e", "d", "a">>,
   <<"c", "t", "e", "d", ">">>, GhpChars, <<"x">>}

NextRedact == \E piece \in Pieces : RedactOp(piece)

SpecRedact == Init /\ [][NextRedact]_vars

\* ------------------------------------------------------------------------
\* Specification of a service whose .memoryignore is missing, well-formed
\* or holds a line that does not compile: saves, a replace and a delete.
\* ------------------------------------------------------------------------
IgnoreFiles ==
  {<<>>, <<"acme">>, <<"#", "", "acme">>, <<"acme", BadRegex>>, <<BadRegex, "acme">>}

InitIgnore ==
  /\ db = EmptyDB
  /\ files = <<>>
  /\ vectorsOK = "nil"
  /\ provider = NoProvider
  /\ now = 0
  /\ lastOp = NoOp
  /\ logCount = 0
  /\ ignoreFile \in IgnoreFiles
  /\ tasks = NoTasks

IgnoreInputs == {RawSecret, RawMake}

NextIgnore ==
  \/ \E raw \in IgnoreInputs : Save(raw, "p1", TRUE, "none")
  \/ Replace(<<"a">>, RawSecret, TRUE)
  \/ Delete(<<"a">>)

SpecIgnore == InitIgnore /\ [][NextIgnore]_vars

\* ------------------------------------------------------------------------
\* Specification of bulk deletion: memories of two projects and three
\* categories saved on two days with a provider of width 4, and
\* delete_by_filter with and without each filter.
\* ------------------------------------------------------------------------
FilterProjects == {"", "p1"}
FilterCategories == {"", "bug"}
FilterDays == {0, 1}
FilterInputs == {RawSecret, RawMake}

NextFilter ==
  \/ Restart([kind |-> "remote", dim |-> 4])
  \/ Tick
  \/ \E raw \in FilterInputs :
       Save(raw, "p1", TRUE, "none") /\ lastOp'.action = "created"
                                     /\ db'.seq <= MaxVecRows
  \/ Save(RawSql, "p2", TRUE, "none") /\ lastOp'.action = "created"
                                      /\ db'.seq <= MaxVecRows
  \/ \E project \in FilterProjects : \E category \in FilterCategories :
     \E olderThanDays \in FilterDays :
       DeleteByFilterOp(project, category, olderThanDays)

SpecFilter == Init /\ [][NextFilter]_vars

\* ------------------------------------------------------------------------
\* Specification of tag lists: saves that create and that merge, one of
\* them with the same tag in two spellings, a replace and a delete.
\* ------------------------------------------------------------------------
TagInputs == {RawMake, RawMakeAgain, RawTagged}

NextTags ==
  \/ \E raw \in TagInputs : Save(raw, "p1", TRUE, "none") /\ db'.seq <= MaxVecRows
  \/ Replace(<<"a">>, RawTagged, TRUE)
  \/ Delete(<<"a">>)

SpecTags == Init /\ [][NextTags]_vars

\* ------------------------------------------------------------------------
\* Specification of mergeTags on its own: lists of tags in two spellings.
\* ------------------------------------------------------------------------
MergeTagNames == {"build", "Build", "ci", "Ops", "ops"}

NextMerge == \E side \in {"existing", "extra"}, tag \in MergeTagNames : MergeTagsOp(side, tag)

SpecMerge == Init /\ [][NextMerge]_vars

\* ------------------------------------------------------------------------
\* Specification of the context listing: a service started with or
\* without a provider, a first memory that may belong to another project,
\* memories of project p1 written on successive days, listed with and
\* without a query, with and without semantic search and top-up.
\* ------------------------------------------------------------------------
ContextInputs == {RawMake, RawSql, RawCi}

ContextQueries == {<<>>, <<"ci">>}

ContextLimits == {0, 2}

ContextModes == {"never", "sometimes"}

NextContext ==
  \/ \E raw \in ContextInputs :
       /\ Save(raw, "p1", TRUE, "none")
       /\ lastOp'.action = "created" /\ db'.seq <= MaxRowid
  \/ Save(RawCi, "p2", TRUE, "none") /\ db.seq = 0
  \/ Tick /\ lastOp.op = "save"
  \/ Restart([kind |-> "remote", dim |-> 4]) /\ lastOp.op = "none"
  \/ \E limit \in ContextLimits, query \in ContextQueries, mode \in ContextModes,
        topupRecent \in BOOLEAN :
       GetContextOp(limit, "p1", query, mode, TRUE, topupRecent, TRUE)

SpecContext == Init /\ [][NextContext]_vars

\* ------------------------------------------------------------------------
\* Specification of parallel calls: two tasks that save, delete and
\* reindex on one service, started with or without a provider.
\* ------------------------------------------------------------------------
InitPar ==
  /\ db = EmptyDB
  /\ files = <<>>
  /\ vectorsOK = "nil"
  /\ provider \in {NoProvider, [kind |-> "remote", dim |-> 4]}
  /\ now = 0
  /\ lastOp = NoOp
  /\ logCount = 0
  /\ ignoreFile = MemoryIgnore
  /\ tasks = NoTasks

\* Two memories whose texts share no token, so that a probe for one never
\* returns the other.
ParInputs == {RawMake, RawLearn}

ParIds == {<<"a", "a">>}

NextPar ==
  \E t \in Tasks :
    \/ \E raw \in ParInputs : SaveBegin(t, raw, "p1")
    \/ SaveRead(t)
    \/ SaveWrite(t)
    \/ SaveInsert(t)
    \/ SaveUpdateStep(t)
    \/ SaveLookup(t)
    \/ SaveVector(t)
    \/ \E id \in ParIds : DeleteCall(t, id)
    \/ ReindexBegin(t)
    \/ ReindexRow(t)

SpecPar == InitPar /\ [][NextPar]_vars

\* ------------------------------------------------------------------------
\* Specification of the tool surface: memory_save and memory_replace with
\* categories that are valid, unknown and empty, with and without the
\* project and the id.
\* ------------------------------------------------------------------------
ToolCategories == {"nonexistent", "", "bug"}

ToolRequests ==
  {[r EXCEPT !.category = c] : r \in {RawMake, RawSql}, c \in ToolCategories}

ToolReplaceRequests == {[RawLearn EXCEPT !.category = c] : c \in {"nonexistent", ""}}

NextTool ==
  \/ \E req \in ToolRequests, project \in {"", "p1"} :
       handleSave(req, project) /\ db'.seq <= MaxVecRows
  \/ \E req \in ToolReplaceRequests, id \in {<<>>, <<"a">>} : handleReplace(id, req)

SpecTool == Init /\ [][NextTool]_vars

\* ------------------------------------------------------------------------
\* Specification of the title a save persists: titles put together from
\* runs of letters, the caller's literal and a token shape, given to the
\* tool server or to the save command.
\* ------------------------------------------------------------------------
Letters(n) == [i \in 1..n |-> "a"]

TitlePieces == {Letters(20), Letters(19), <<"a">>, IgnoreChars, GhpChars \o <<"a">>}

NextTitle == \E surface \in {"tool", "cli"}, piece \in TitlePieces : SaveTitleOp(surface, piece)

SpecTitle == Init /\ [][NextTitle]_vars

\* ------------------------------------------------------------------------
\* Specification of one day's session file: saves into project p1 of
\* memories of every category and of none, one with a heading line as its
\* details, one whose title is a category heading's text.
\* ------------------------------------------------------------------------
MdInputs == {RawSql, RawMake, RawCi, RawLearn, RawTagged, RawHeading, RawTitled}

NextMd == \E raw \in MdInputs : Save(raw, "p1", TRUE, "none")

SpecMd == Init /\ [][NextMd]_vars

\* ------------------------------------------------------------------------
\* Specification of id arguments: two memories with details, then
\* deletes, replaces and get_details whose id argument is a literal
\* prefix, holds % or _, or is in upper case.
\* ------------------------------------------------------------------------
RawNotes == RawInput(<<"make">>, <<"sql">>, <<>>, <<>>, <<"plan">>, <<>>, "pattern")
RawPlan == RawInput(<<"ci">>, <<"make">>, <<>>, <<>>, <<"steps">>, <<>>, "bug")

LikeInputs == {RawNotes, RawPlan}

LikeIds == {<<"a">>, <<"b">>, <<"a", "b">>, <<"%">>, <<"_">>, <<"_", "b">>, <<"%", "b">>, <<"A">>}

NextLike ==
  \/ \E raw \in LikeInputs :
       Save(raw, "p1", TRUE, "none") /\ lastOp'.action = "created" /\ db'.seq <= MaxVecRows
  \/ \E id \in LikeIds : Delete(id)
  \/ \E id \in LikeIds : Replace(id, RawLearn, TRUE)
  \/ \E id \in LikeIds : GetDetailsOp(id)

SpecLike == Init /\ [][NextLike]_vars

\* ------------------------------------------------------------------------
\* Specification of clamp: limits from -1 on and row counts from 0 on.
\* ------------------------------------------------------------------------
ClampLimits == -1..MaxClampArg

ClampCounts == 0..MaxClampArg

NextClamp == \E limit \in ClampLimits : \E n \in ClampCounts : ClampOp(limit, n)

SpecClamp == Init /\ [][NextClamp]_vars

\* ------------------------------------------------------------------------
\* Properties of the dedup probe and the title search (SpecDedup)
\* ------------------------------------------------------------------------
\* The step is a save that returned successfully.
SaveStep == lastOp'.op = "save" /\ lastOp'.ok /\ db' # db

\* The step is search(title, 1, project, "", false) for the title and
\* project of the save that has just returned.
SearchSavedStep ==
  /\ lastOp.op = "save" /\ lastOp.ok
  /\ lastOp'.op = "search" /\ lastOp'.n = 1
  /\ lastOp'.title = lastOp.title /\ lastOp'.project = lastOp.project

\* C3: when the store holds exactly one memory, created by the save that
\* has just returned, a second save into the same project with the same
\* title (compared as Save compares titles: ignoring case and surrounding
\* blanks) returns action "updated" with the id of that memory, and
\* count_memories() is 1 afterwards.
C3_SecondSaveUpdates ==
  [][(/\ lastOp.op = "save" /\ lastOp.action = "created"
      /\ CountMemories(db) = 1
      /\ SaveStep
      /\ lastOp'.project = lastOp.project
      /\ EqualFold(TrimSpace(lastOp'.title), TrimSpace(lastOp.title)))
     => (/\ lastOp'.action = "updated"
         /\ lastOp'.id = lastOp.id
         /\ CountMemories(db') = 1)]_vars

\* A second save of the title has updated the only memory ever created.
C3_Witness ==
  /\ lastOp.op = "save" /\ lastOp.action = "updated"
  /\ db.seq = 1 /\ CountMemories(db) = 1
  /\ lastOp.id \in Ids(db)
  /\ db.memories[1].updated_count = 1
  /\ db.memories[1].what = lastOp.what

\* The incoming title equals the top candidate's, ignoring case and
\* surrounding blanks.
TitleMatchesTop(d, title, candidates) ==
  /\ Len(candidates) > 0
  /\ EqualFold(TrimSpace(title), TrimSpace(d.memories[candidates[1].rowid].title))

\* The update condition as the claim words it: the top score is always
\* divided by the best score of the probe without the project filter.
ClaimedUpdateCondition(d, title, candidates, wider) ==
  /\ TitleMatchesTop(d, title, candidates)
  /\ 10 * candidates[1].num >= 7 * MaxScore(wider)

\* The update condition with the divisor the code uses: the best score of
\* the probe without the project filter when the project probe returned one
\* row, the best score of the project probe itself (the top score) when it
\* returned two or more.
AmendedUpdateCondition(d, title, candidates, wider) ==
  /\ TitleMatchesTop(d, title, candidates)
  /\ (Len(candidates) = 1 => 10 * candidates[1].num >= 7 * MaxScore(wider))

\* The probes a save of (title, what) into project runs against database d.
Probes(d, title, what, project) ==
  FTSSearch(d, title \o <<WS>> \o what, 5, project)
    \X FTSSearch(d, title \o <<WS>> \o what, 5, "")

\* C4 (amended): a save takes the update path, on the probe's top
\* candidate, exactly when the project probe returns rows, the titles are
\* equal ignoring case and surrounding blanks, and normalized_top >= 0.7,
\* where normalized_top divides by the best score of the probe without the
\* project filter only when the project probe returned exactly one row;
\* with two or more rows it is 1.  Otherwise the save creates.
C4_UpdateExactlyWhen ==
  [][SaveStep =>
       LET P == Probes(db, lastOp'.title, lastOp'.what, lastOp'.project)
       IN /\ lastOp'.action = "updated" =>
               \E pr \in P : /\ AmendedUpdateCondition(db, lastOp'.title, pr[1], pr[2])
                              /\ lastOp'.id = db.memories[pr[1][1].rowid].id
          /\ lastOp'.action = "created" =>
               \E pr \in P : ~AmendedUpdateCondition(db, lastOp'.title, pr[1], pr[2])]_vars

\* C4 as claimed: normalized_top always divides by the best score of the
\* probe without the project filter.
C4_AsClaimed ==
  [][SaveStep =>
       LET P == Probes(db, lastOp'.title, lastOp'.what, lastOp'.project)
       IN /\ lastOp'.action = "updated" =>
               \E pr \in P : ClaimedUpdateCondition(db, lastOp'.title, pr[1], pr[2])
          /\ lastOp'.action = "created" =>
               \E pr \in P : ~ClaimedUpdateCondition(db, lastOp'.title, pr[1], pr[2])]_vars

\* A save has updated a memory of a project that holds two memories while
\* a third one lives in another project.
C4_Witness ==
  /\ lastOp.op = "save" /\ lastOp.action = "updated"
  /\ Cardinality({r \in DOMAIN db.memories : db.memories[r].project = lastOp.project}) >= 2
  /\ \E r \in DOMAIN db.memories : db.memories[r].project # lastOp.project

\* C5 (amended): after save(raw, p) succeeds, search(raw.title, 1, p, "",
\* false) returns the saved id whenever the saved memory ranks strictly
\* above every other full-text match of the title in project p (so in
\* particular when no other memory of p contains a term of the title).
C5_SearchFindsSaved ==
  [][(/\ SearchSavedStep
      /\ LET terms == QueryTerms(lastOp.title)
             me == RowidOf(db, lastOp.id)
             hits == FtsHits(db, terms, lastOp.project)
         IN /\ me \in hits
            /\ \A r \in hits \ {me} : Bm25(db, r, terms) < Bm25(db, me, terms))
     => lastOp'.results = <<lastOp.id>>]_vars

\* C5 as claimed: the search returns the saved id whatever else project p
\* holds.
C5_AsClaimed ==
  [][SearchSavedStep => lastOp.id \in Range(lastOp'.results)]_vars

\* A limit-1 search has returned the memory whose title is the query while
\* the project holds another memory that also matches the query.
C5_Witness ==
  /\ lastOp.op = "search" /\ lastOp.n = 1 /\ Len(lastOp.results) = 1
  /\ LET me == RowidOf(db, lastOp.results[1])
     IN /\ db.memories[me].title = lastOp.title
        /\ FtsHits(db, QueryTerms(lastOp.title), lastOp.project) \ {me} # {}

RawSecrets == {SECRET, "hunter2", "acme"}

Clean(text) == Range(text) \cap RawSecrets = {}

\* C2: no free-text column of a memory row, no detail row, no posting of
\* the full-text index and no line of a session file holds an un-redacted
\* value, whether it was written by a create, a dedup-update or a replace;
\* the stored what of the input with the <redacted> span holds [REDACTED].
C2_OnlyRedactedStored ==
  /\ \A r \in DOMAIN db.memories :
       /\ Clean(db.memories[r].title) /\ Clean(db.memories[r].what)
       /\ Clean(db.memories[r].why) /\ Clean(db.memories[r].impact)
       /\ "token" \in Range(db.memories[r].what) => REDACTED \in Range(db.memories[r].what)
  /\ \A id \in DOMAIN db.details : Clean(db.details[id])
  /\ \A e \in BagToSet(db.fts) : e[2] \notin {FtsToken(t) : t \in RawSecrets}
  /\ \A path \in DOMAIN files :
       \A i \in 1..Len(files[path].body) : Clean(files[path].body[i])

\* The input with the secrets has been created, written to a session file
\* and then updated by a second save that appended its details.
C2_Witness ==
  /\ files # <<>>
  /\ \E r \in DOMAIN db.memories :
       /\ db.memories[r].what = <<"token", REDACTED>>
       /\ db.memories[r].impact = <<REDACTED>>
       /\ db.memories[r].updated_count = 1
       /\ db.memories[r].id \in DOMAIN db.details
       /\ DayName(now) \in Range(db.details[db.memories[r].id])

\* The index tokens of the current values of a row's indexed columns.
IndexedTokens(row) ==
  {FtsToken(t) : t \in (Range(row.title) \cup Range(row.what) \cup Range(row.why)
                         \cup Range(row.impact) \cup Range(JsonUnmarshal(row.tags))) \ {WS}}
    \cup ({row.category} \ {""}) \cup {row.project}

\* Terms a caller searches for.
SearchTerms ==
  {"make", "sql", "build", "pattern", "key", "token", "redacted", "ops", "bug",
   "p1", "sk", "sk_live_abc", "hunter2", "password", "acme"}

\* C8: the index follows the rows: it holds postings only for existing
\* rows, and a row is matched by a term exactly when the term matches a
\* token of the current values of its indexed columns.
C8_IndexFollowsRows ==
  /\ \A e \in BagToSet(db.fts) : e[1] \in DOMAIN db.memories
  /\ \A term \in SearchTerms : \A rowid \in 1..db.seq :
       rowid \in FtsHits(db, <<term>>, "")
         <=> /\ rowid \in DOMAIN db.memories
             /\ \E t \in IndexedTokens(db.memories[rowid]) : PrefixMatch(term, t)

\* A replace has overwritten the only row that held "make", after another
\* row was deleted: "make" matches nothing, "key" matches the replaced row.
C8_Witness ==
  /\ lastOp.op = "replace" /\ lastOp.ok
  /\ CountMemories(db) < db.seq
  /\ FtsHits(db, <<"make">>, "") = {}
  /\ FtsHits(db, <<"key">>, "") # {}

\* ------------------------------------------------------------------------
\* Properties of the vector life cycle (SpecVec)
\* ------------------------------------------------------------------------
NoOrphanVectors(d) == DOMAIN d.vec.rows \subseteq DOMAIN d.memories

C7_VectorsHavePersistedWidth ==
  /\ HasVecTable(db) =>
       /\ GetEmbeddingDim(db) = [ok |-> TRUE, dim |-> db.vec.dim]
       /\ \A r \in DOMAIN db.vec.rows : Len(db.vec.rows[r]) = db.vec.dim
  /\ \A dim \in Dims :
       (GetEmbeddingDim(db).ok /\ GetEmbeddingDim(db).dim # dim) =>
         /\ EnsureVecTable(db, dim) = [db |-> db, err |-> "DimensionMismatch"]
         /\ ~ensureVectors(db, vectorsOK, Embed(<<>>, dim)).ok
  /\ (/\ lastOp.op = "save" /\ lastOp.action = "created"
      /\ HasProvider /\ GetEmbeddingDim(db).ok
      /\ GetEmbeddingDim(db).dim # provider.dim)
     => RowidOf(db, lastOp.id) \notin DOMAIN db.vec.rows

\* A save has returned while the store holds vectors of width 4 and the
\* provider answers with width 8: the cached flag is now "false".
C7_Witness ==
  /\ lastOp.op = "save" /\ lastOp.ok
  /\ provider.dim = 8
  /\ GetEmbeddingDim(db) = [ok |-> TRUE, dim |-> 4]
  /\ db.vec.rows # <<>>
  /\ vectorsOK = "false"

\* C9: after a reindex that returned successfully every memory has a
\* vector (count_vectors() = count_memories()) and the persisted
\* embedding_dim, like the vector table's width, is the provider's.
C9_ReindexCompletes ==
  (lastOp.op = "reindex" /\ lastOp.ok) =>
    /\ HasVecTable(db)
    /\ Cardinality(DOMAIN db.vec.rows) = CountMemories(db)
    /\ DOMAIN db.vec.rows = DOMAIN db.memories
    /\ GetEmbeddingDim(db) = [ok |-> TRUE, dim |-> provider.dim]
    /\ db.vec.dim = provider.dim
    /\ lastOp.n = CountMemories(db)

\* A reindex over two memories has returned successfully and changed the
\* persisted dimension.
C9_Witness ==
  /\ lastOp.op = "reindex" /\ lastOp.ok
  /\ CountMemories(db) >= 2
  /\ lastOp.oldDim \notin {0, provider.dim}

\* The store holds vectors of one width and the provider answers another.
Mismatch ==
  /\ HasProvider
  /\ GetEmbeddingDim(db).ok
  /\ GetEmbeddingDim(db).dim # provider.dim
  /\ db.vec.rows # <<>>

\* Fewer full-text matches than TieredSearch's minimum.
Sparse(d, query, project) ==
  Cardinality(FtsHits(d, QueryTerms(query), project)) < DefaultMinFTS

\* C10: under a dimension mismatch a save succeeds (it writes the memory,
\* no vector, and leaves the persisted dimension); a reindex fails only
\* when the provider fails and otherwise succeeds with the cached flag ok;
\* and the search that follows the successful reindex consults the
\* provider and the vector table when full-text hits are sparse.
C10_MismatchRecovery ==
  [][/\ (Mismatch /\ lastOp'.op = "save" /\ db' # db) =>
          /\ lastOp'.ok
          /\ lastOp'.id \in Ids(db')
          /\ db'.vec = db.vec
          /\ GetEmbeddingDim(db') = GetEmbeddingDim(db)
     /\ (Mismatch /\ lastOp'.op = "reindex") =>
          \/ /\ lastOp'.ok
             /\ vectorsOK' = "true"
             /\ GetEmbeddingDim(db').dim = provider.dim
          \/ lastOp'.action \in {"probe", "Embed"}
     /\ (/\ lastOp.op = "reindex" /\ lastOp.ok
         /\ lastOp.oldDim \notin {0, provider.dim}
         /\ lastOp'.op = "search"
         /\ Sparse(db, lastOp'.title, lastOp'.project)) =>
          /\ vectorsOK' = "true"
          /\ lastOp'.embedCalled
          /\ lastOp'.vecUsed]_vars

\* The reindex after a mismatch (persisted 4, provider 8) has succeeded
\* over two memories, the flag is ok and a search now uses vectors.
C10_Witness ==
  /\ lastOp.op = "reindex" /\ lastOp.ok
  /\ lastOp.oldDim = 4 /\ provider.dim = 8
  /\ vectorsOK = "true"
  /\ CountMemories(db) >= 2
  /\ \A o \in SearchOutcomes(db, vectorsOK, <<"make">>, 5, "p1", TRUE, TRUE) : o.out.vecUsed

\* ------------------------------------------------------------------------
\* Saves under a dimension mismatch (SpecVec)
\* ------------------------------------------------------------------------
\* Inputs a save under a mismatch is followed with: one that dedups onto
\* the stored memory and two that create.
MismatchInputs == {RawMake, RawSql, RawCi}

\* The persisted embedding_dim is not the width the provider answers with.
WidthDiffers ==
  /\ HasProvider
  /\ GetEmbeddingDim(db).ok
  /\ GetEmbeddingDim(db).dim # provider.dim

\* C11: when the provider answers a save's Embed call with a width that is
\* not the persisted embedding_dim, the save succeeds, leaves the vector
\* table and the persisted dimension as they were and sets the cached
\* vectors flag to "false"; on the create path it returns "created", the
\* memory row and one more Markdown section exist, and the new row has no
\* vector.
C11_MismatchSaveSucceeds ==
  WidthDiffers =>
    \A raw \in MismatchInputs :
      \A o \in SaveOutcomes(db, files, vectorsOK, raw, "p1", NextId(db), TRUE, "none") :
        /\ o.res.ok
        /\ o.res.action \in {"created", "updated"}
        /\ o.vok = "false"
        /\ o.db.vec = db.vec
        /\ GetEmbeddingDim(o.db) = GetEmbeddingDim(db)
        /\ o.res.action = "created" =>
             /\ o.res.id \notin Ids(db)
             /\ GetMemory(o.db, o.res.id).found
             /\ GetMemory(o.db, o.res.id).rowid \notin DOMAIN o.db.vec.rows
             /\ Sections(o.files) = Sections(files) + 1

\* A save has created a second memory while the store holds a vector of
\* width 4 and the provider answers with width 8: the new row and its
\* section are there, the row has no vector, the flag is "false".
C11_Witness ==
  /\ lastOp.op = "save" /\ lastOp.action = "created"
  /\ WidthDiffers
  /\ vectorsOK = "false"
  /\ db.vec.rows # <<>>
  /\ GetMemory(db, lastOp.id).found
  /\ GetMemory(db, lastOp.id).rowid \notin DOMAIN db.vec.rows
  /\ Sections(files) >= 2

\* ------------------------------------------------------------------------
\* Properties of search under a failing vector path (SpecSearch)
\* ------------------------------------------------------------------------
\* C12: a search whose query has at least one full-text hit in the project
\* returns without error and with at least one result, whatever the
\* vector path does: no provider, a failing Embed call, a vector table of
\* another width or none at all.
C12_SearchSurvivesVectorFailure ==
  [][(/\ lastOp'.op = "search"
      /\ FtsHits(db, QueryTerms(lastOp'.title), lastOp'.project) # {})
     => (lastOp'.ok /\ lastOp'.results # <<>>)]_vars

\* A search has called the provider, could not use the vector table, and
\* has returned a result all the same.
C12_Witness ==
  /\ lastOp.op = "search" /\ lastOp.ok
  /\ lastOp.embedCalled /\ ~lastOp.vecUsed
  /\ lastOp.results # <<>>

\* min_fts arguments a caller of TieredSearch passes (0 asks for the default).
MinFTSArgs == {0, 2}

\* The row count below which TieredSearch turns to the provider.
EffectiveMinFTS(minFTS) == IF minFTS <= 0 THEN DefaultMinFTS ELSE minFTS

\* C13: when the full-text search of a tiered search returns at least
\* min_fts rows (3 when the argument is not positive), the tiered search
\* has the same possible ordered results with a provider, answering or
\* failing, as without one, and the provider is not called.
C13_EnoughFtsSkipsProvider ==
  \A limit \in SearchLimits : \A minFTS \in MinFTSArgs :
    (\A rows \in FTSSearch(db, <<"make">>, limit * 2, "p1") :
        Len(rows) >= EffectiveMinFTS(minFTS))
    => \A dim \in Dims : \A embedOK \in BOOLEAN :
         /\ TieredSearch(db, TRUE, embedOK, dim, <<"make">>, limit, minFTS, "p1")
              = TieredSearch(db, FALSE, FALSE, 0, <<"make">>, limit, minFTS, "p1")
         /\ \A o \in TieredSearch(db, TRUE, embedOK, dim, <<"make">>, limit, minFTS, "p1") :
              ~o.embedCalled /\ o.err = "" /\ Len(o.results) = limit

\* A search with limit 2 over three memories that all match, with a
\* provider configured and a vector table in place, has returned two
\* results without calling the provider.
C13_Witness ==
  /\ lastOp.op = "search" /\ lastOp.ok /\ lastOp.n = 2
  /\ HasProvider /\ vectorsOK = "true" /\ db.vec.rows # <<>>
  /\ Cardinality(FtsHits(db, <<"make">>, "p1")) >= DefaultMinFTS
  /\ ~lastOp.embedCalled
  /\ Len(lastOp.results) = 2
  /\ \A o \in SearchOutcomes(db, vectorsOK, <<"make">>, 2, "p1", TRUE, TRUE) :
       ~o.out.embedCalled

\* A search for "make" with use_vectors and an answering provider meets a
\* vector table whose width is not the query embedding's: the cached flag
\* lets the vector path run, the full-text hits are sparse, and the
\* table's MATCH fails.
SearchHitsMismatch(limit) ==
  /\ HasProvider
  /\ vectorsAvailable(db, vectorsOK).ok
  /\ ~FTSSearchFails(<<"make">>)
  /\ Min2(limit * 2, Cardinality(FtsHits(db, <<"make">>, "p1"))) < DefaultMinFTS
  /\ VectorSearchFails(db, Embed(<<"make">>, provider.dim))

\* C14 as claimed: a search with use_vectors that hits a dimension
\* mismatch between the query embedding and the vector table sets the
\* cached vectors flag to "false" and is answered from the full-text
\* search alone.
C14_AsClaimed ==
  \A limit \in SearchLimits :
    SearchHitsMismatch(limit) =>
      \A o \in SearchOutcomes(db, vectorsOK, <<"make">>, limit, "p1", TRUE, TRUE) :
        /\ o.vok = "false"
        /\ o.out.err = ""
        /\ ~o.out.vecUsed

\* What the search does there: it is answered from the full-text search
\* alone, and the cached flag stays "true".
C14_FlagStaysTrue ==
  \A limit \in SearchLimits :
    SearchHitsMismatch(limit) =>
      \A o \in SearchOutcomes(db, vectorsOK, <<"make">>, limit, "p1", TRUE, TRUE) :
        /\ o.vok = "true"
        /\ o.out.err = ""
        /\ o.out.embedCalled /\ ~o.out.vecUsed
        /\ o.out \in TieredSearch(db, TRUE, FALSE, provider.dim, <<"make">>, limit, 0, "p1")

\* A search has returned full-text results in a store whose vector table
\* has width 4 while the provider answers with width 8, and the flag is
\* "true" after it.
C14_Witness ==
  /\ lastOp.op = "search" /\ lastOp.ok /\ lastOp.results # <<>>
  /\ lastOp.embedCalled /\ ~lastOp.vecUsed
  /\ SearchHitsMismatch(lastOp.n)
  /\ db.vec.dim = 4 /\ provider.dim = 8
  /\ vectorsOK = "true"

\* ------------------------------------------------------------------------
\* Properties of id-prefix resolution (SpecPrefix)
\* ------------------------------------------------------------------------
\* C15: a delete by an id or id prefix that at least one memory matches
\* returns true and removes exactly one matching memory row, with its
\* detail row and its vector row, and leaves every other row, detail and
\* vector as it was; so with two memories under the prefix the first
\* delete leaves one of them and the second delete removes that one.
C15_PrefixDeleteRemovesOne ==
  [][(lastOp'.op = "delete" /\ LikeMatches(db, lastOp'.id) # {})
     => /\ lastOp'.ok
        /\ \E r \in LikeMatches(db, lastOp'.id) :
             /\ db'.memories = DropKey(db.memories, r)
             /\ db'.details = DropKey(db.details, db.memories[r].id)
             /\ db'.vec.rows = DropKey(db.vec.rows, r)
             /\ db.memories[r].id \notin DOMAIN db'.details
             /\ r \notin DOMAIN db'.vec.rows]_vars

\* Two memories were created under the prefix "a" and a delete by that
\* prefix has removed one of them: the other one is there with its detail
\* row and its vector row, and nothing else is.
C15_Witness ==
  /\ lastOp.op = "delete" /\ lastOp.ok /\ lastOp.id = <<"a">>
  /\ db.seq = 2 /\ logCount = 1
  /\ \E r \in DOMAIN db.memories :
       /\ DOMAIN db.memories = {r}
       /\ DOMAIN db.details = {db.memories[r].id}
       /\ DOMAIN db.vec.rows = {r}

\* The lowest rowid among the rows an id or prefix matches.
LowestMatch(d, id) ==
  CHOOSE r \in LikeMatches(d, id) : \A x \in LikeMatches(d, id) : r <= x

\* C16 as claimed: when more than one memory matches the id prefix, a
\* delete removes, and a replace overwrites, the matching memory with the
\* lowest rowid.
C16_AsClaimed ==
  [][(/\ lastOp'.op \in {"delete", "replace"} /\ lastOp'.ok
      /\ Cardinality(LikeMatches(db, lastOp'.id)) > 1)
     => LET r == LowestMatch(db, lastOp'.id)
        IN IF lastOp'.op = "delete" THEN r \notin DOMAIN db'.memories
           ELSE db'.memories[r].updated_count = db.memories[r].updated_count + 1]_vars

\* What the statements guarantee: the delete or replace acts on one of
\* the matching memories, and on no other row.
C16_SelectsSomeMatch ==
  [][(/\ lastOp'.op \in {"delete", "replace"} /\ lastOp'.ok
      /\ Cardinality(LikeMatches(db, lastOp'.id)) > 1)
     => \E r \in LikeMatches(db, lastOp'.id) :
          /\ \A x \in DOMAIN db.memories \ {r} :
               x \in DOMAIN db'.memories /\ db'.memories[x] = db.memories[x]
          /\ IF lastOp'.op = "delete" THEN r \notin DOMAIN db'.memories
             ELSE db'.memories[r].updated_count = db.memories[r].updated_count + 1]_vars

\* A replace by the prefix "a" has overwritten the memory with the higher
\* rowid of the two that match.
C16_Witness ==
  /\ lastOp.op = "replace" /\ lastOp.ok /\ lastOp.id = <<"a">>
  /\ Cardinality(LikeMatches(db, <<"a">>)) = 2
  /\ LET r == LowestMatch(db, <<"a">>)
     IN /\ db.memories[r].updated_count = 0
        /\ \E x \in LikeMatches(db, <<"a">>) :
             x > r /\ db.memories[x].updated_count = 1 /\ db.memories[x].title = lastOp.title

\* The step is a replace that returned successfully.
ReplaceStep == lastOp'.op = "replace" /\ lastOp'.ok

\* The row get_memory returns for full id m in database d holds the
\* redacted input r, one more update than row old, and old's file_path,
\* project and creation day; the detail row holds r's body, or is gone
\* when r has none.
HoldsReplaced(d, m, r, old) ==
  LET got == GetMemory(d, m)
  IN /\ got.found
     /\ got.row.title = r.title /\ got.row.what = r.what
     /\ got.row.why = r.why /\ got.row.impact = r.impact
     /\ JsonUnmarshal(got.row.tags) = r.tags
     /\ got.row.category = r.category
     /\ got.row.updated_count = old.updated_count + 1
     /\ got.row.file_path = old.file_path
     /\ got.row.project = old.project
     /\ got.row.created_at = old.created_at
     /\ IF r.details # <<>> THEN m \in DOMAIN d.details /\ d.details[m] = r.details
        ELSE m \notin DOMAIN d.details

\* C17 (amended): after a successful replace(id, raw'), get_memory of the
\* full id of the memory that id resolved to returns title, what, why,
\* impact, tags and category equal to raw' post-redaction, updated_count
\* has increased by exactly 1, file_path is unchanged, and the detail body
\* is raw'.details post-redaction (no detail row when it is empty).
C17_ReplaceOverwrites ==
  [][ReplaceStep =>
       \E raw \in ReplaceInputs : \E x \in LikeMatches(db, lastOp'.id) :
         /\ RedactRaw(raw).title = lastOp'.title
         /\ HoldsReplaced(db', db.memories[x].id, RedactRaw(raw), db.memories[x])]_vars

\* C17 as claimed: get_memory is called with the id that was passed to
\* replace.
C17_AsClaimed ==
  [][ReplaceStep =>
       \E raw \in ReplaceInputs : \E x \in LikeMatches(db, lastOp'.id) :
         /\ RedactRaw(raw).title = lastOp'.title
         /\ HoldsReplaced(db', lastOp'.id, RedactRaw(raw), db.memories[x])]_vars

\* A replace by the full id "ab" has overwritten that memory with the
\* redacted input and its redacted detail body, while another memory is
\* stored beside it.
C17_Witness ==
  /\ lastOp.op = "replace" /\ lastOp.ok /\ lastOp.id = <<"a", "b">>
  /\ CountMemories(db) = 2
  /\ GetMemory(db, <<"a", "b">>).found
  /\ GetMemory(db, <<"a", "b">>).row.what = <<"token", REDACTED>>
  /\ GetMemory(db, <<"a", "b">>).row.updated_count = 1
  /\ db.details[<<"a", "b">>] = <<REDACTED>>

\* ------------------------------------------------------------------------
\* Properties of the create path under failing writes (SpecCrud)
\* ------------------------------------------------------------------------
\* The step is a save, successful or not.
AnySaveStep == lastOp'.op = "save"

\* C18 as claimed: a save ends with one more Markdown section exactly
\* when it ends with one more memory row, also when the Markdown write or
\* the relational insert fails.
C18_AsClaimed ==
  [][AnySaveStep =>
       (Sections(files') = Sections(files) + 1
          <=> CountMemories(db') = CountMemories(db) + 1)]_vars

\* What the create path guarantees for session files in which no line
\* holds a category heading's text inside other text (the other files are
\* the subject of C38): a save that adds a memory row has added its
\* Markdown section, a save that reports success has added both or (on
\* the update path) neither, and a save that adds a section without a row
\* reports failure.
C18_RowImpliesSection ==
  [][AnySaveStep =>
       /\ CountMemories(db') = CountMemories(db) + 1
            => Sections(files') = Sections(files) + 1
       /\ lastOp'.ok =>
            (Sections(files') = Sections(files) + 1
               <=> CountMemories(db') = CountMemories(db) + 1)
       /\ (Sections(files') = Sections(files) + 1
            /\ CountMemories(db') = CountMemories(db)) => ~lastOp'.ok]_vars

\* A save whose relational insert failed has returned an error: the vault
\* holds a section for which no memory row was ever inserted.
C18_Witness ==
  /\ lastOp.op = "save" /\ ~lastOp.ok
  /\ Sections(files) > db.seq

\* ------------------------------------------------------------------------
\* Properties of storage operations with a failing statement (SpecTx)
\* ------------------------------------------------------------------------
\* The step is an update, a replace or a delete that returned a storage
\* error.
FailedStorageStep == lastOp'.action = "StorageError"

\* C19 as claimed: when a statement of an update, a replace or a delete
\* fails, the memory rows, the detail rows and the vector rows are what
\* they were before the operation.
C19_AsClaimed ==
  [][FailedStorageStep =>
       /\ db'.memories = db.memories
       /\ db'.details = db.details
       /\ db'.vec = db.vec]_vars

\* What a failed update, replace or delete guarantees: when its first
\* statement fails nothing has changed; in every case the set of memory
\* rows is the same, at most one memory row differs, and only the detail
\* row and the vector row of one memory can differ.
C19_FailureIsLocal ==
  [][FailedStorageStep =>
       /\ lastOp'.n = 1 => db' = db
       /\ DOMAIN db'.memories = DOMAIN db.memories
       /\ \E r \in DOMAIN db.memories :
            /\ \A x \in DOMAIN db.memories \ {r} : db'.memories[x] = db.memories[x]
            /\ db'.memories[r].id = db.memories[r].id
            /\ DropKey(db'.details, db.memories[r].id)
                 = DropKey(db.details, db.memories[r].id)
            /\ DropKey(db'.vec.rows, r) = DropKey(db.vec.rows, r)]_vars

\* A delete whose last statement failed has returned an error and left
\* the only memory ever saved in place without the vector row its save
\* had inserted.
C19_Witness ==
  /\ lastOp.op = "delete" /\ lastOp.action = "StorageError" /\ lastOp.n = 3
  /\ db.vec.exists /\ db.seq = 1
  /\ \E r \in DOMAIN db.memories :
       /\ IsPrefixOf(lastOp.id, db.memories[r].id)
       /\ r \notin DOMAIN db.vec.rows

\* ------------------------------------------------------------------------
\* Properties of the order of a save's steps (SpecVec)
\* ------------------------------------------------------------------------
OrderInputs == {RawMake, RawSql, RawCi}

\* The vector side of the store and of the service: the vector table, the
\* persisted dimension and the cached vectors flag.
VectorSide(d, vok) == <<d.vec, GetEmbeddingDim(d), vok>>

\* C20: with a provider configured, a save touches the vector side only
\* after it has persisted the section and the row: a save that fails at
\* the Markdown write or at the insert leaves the vector side as it was,
\* and a save that changed it has succeeded and its memory row exists
\* (with one more section on the create path); a creating save whose
\* Embed call fails or is cancelled returns "created" with the row and the
\* section persisted, no vector for the new row, and the vector side as
\* it was.
C20_EmbedAfterPersist ==
  HasProvider =>
    \A raw \in OrderInputs : \A embedOK \in BOOLEAN : \A fault \in Faults :
      \A o \in SaveOutcomes(db, files, vectorsOK, raw, "p1", NextId(db), embedOK, fault) :
        /\ ~o.res.ok => VectorSide(o.db, o.vok) = VectorSide(db, vectorsOK)
        /\ VectorSide(o.db, o.vok) # VectorSide(db, vectorsOK) =>
             /\ o.res.ok
             /\ GetMemory(o.db, o.res.id).found
             /\ o.res.action = "created" => Sections(o.files) = Sections(files) + 1
        /\ (~embedOK /\ fault = "none" /\ o.res.action = "created") =>
             /\ o.res.ok
             /\ o.res.id \notin Ids(db)
             /\ GetMemory(o.db, o.res.id).found
             /\ Sections(o.files) = Sections(files) + 1
             /\ GetMemory(o.db, o.res.id).rowid \notin DOMAIN o.db.vec.rows
             /\ VectorSide(o.db, o.vok) = VectorSide(db, vectorsOK)

\* A save has created a second memory while the provider's width is the
\* stored one and the flag is "true", and the new row has no vector: its
\* Embed call failed, the row and its section are there.
C20_Witness ==
  /\ lastOp.op = "save" /\ lastOp.ok /\ lastOp.action = "created"
  /\ HasProvider /\ vectorsOK = "true"
  /\ GetEmbeddingDim(db).dim = provider.dim
  /\ db.vec.rows # <<>>
  /\ GetMemory(db, lastOp.id).found
  /\ GetMemory(db, lastOp.id).rowid \notin DOMAIN db.vec.rows
  /\ Sections(files) >= 2

\* ------------------------------------------------------------------------
\* Properties of a reindex that fails part-way (SpecVec)
\* ------------------------------------------------------------------------
\* The rows a reindex has processed when the provider fails its Embed
\* call number budget + 1 (the probe is the first call).
Processed(d, budget) ==
  LET order == ListAllForReindex(d)
  IN {order[i] : i \in {j \in 1..Len(order) : j <= budget - 1}}

\* The vector Reindex stores for row r.
ReindexVector(d, r) ==
  LET m == d.memories[r]
  IN Embed(EmbedText(m.title, m.what, m.why, m.impact, JsonUnmarshal(m.tags)), provider.dim)

\* C21: a reindex whose provider fails after the probe, before the last
\* memory is embedded, returns the error; the vector table then holds the
\* whole vector of every memory processed before the failure and nothing
\* for the others, the memories are untouched; a following reindex that
\* runs to completion returns no error and leaves exactly one vector for
\* every memory.
C21_ReindexFailsPartially ==
  HasProvider =>
    \A budget \in 1..(MaxVecRows + 1) :
      LET ri == Reindex(db, vectorsOK, budget)
          again == Reindex(ri.db, ri.vok, CountMemories(db) + 1)
      IN /\ (ri.err # "") <=> (budget - 1 < CountMemories(db))
         /\ ri.err # "" =>
              /\ HasVecTable(ri.db)
              /\ DOMAIN ri.db.vec.rows = Processed(db, budget)
              /\ \A r \in Processed(db, budget) :
                   ri.db.vec.rows[r] = ReindexVector(db, r)
              /\ ri.db.memories = db.memories
              /\ ri.db.details = db.details
              /\ again.err = ""
              /\ again.vok = "true"
              /\ DOMAIN again.db.vec.rows = DOMAIN db.memories
              /\ \A r \in DOMAIN db.memories :
                   again.db.vec.rows[r] = ReindexVector(db, r)

\* A reindex over two memories has returned an error after it stored the
\* vector of the first one: the second memory has none.
C21_Witness ==
  /\ lastOp.op = "reindex" /\ ~lastOp.ok
  /\ CountMemories(db) = 2
  /\ Cardinality(DOMAIN db.vec.rows) = 1
  /\ DOMAIN db.vec.rows = Processed(db, 2)

HasSub(s, pat) == IndexOfSub(s, pat, 1) # 0

\* C23 as claimed: redacting a redacted text changes nothing.
C23_AsClaimed ==
  lastOp.op = "redact" =>
    RedactChars(lastOp.what, IgnoreChars) = lastOp.what

\* What holds with the caller's literal: a redacted text in which no tag
\* is left is a fixed point of redaction.
C23_IdempotentOnceTagFree ==
  lastOp.op = "redact" =>
    LET once == lastOp.what
    IN (~HasSub(once, OpenChars) /\ ~HasSub(once, CloseChars))
         => RedactChars(once, IgnoreChars) = once

\* A text with a tag pair, a token and the caller's literal has been
\* redacted: no tag, token or literal is left and the replacement is
\* there.
C23_Witness ==
  /\ lastOp.op = "redact"
  /\ HasSub(lastOp.title, OpenChars) /\ HasSub(lastOp.title, CloseChars)
  /\ HasSub(lastOp.title, IgnoreChars)
  /\ ~HasSub(lastOp.what, OpenChars) /\ ~HasSub(lastOp.what, CloseChars)
  /\ ~HasSub(lastOp.what, IgnoreChars)
  /\ HasSub(lastOp.what, ReplacementChars)
  /\ RedactChars(lastOp.what, IgnoreChars) = lastOp.what

\* ------------------------------------------------------------------------
\* Properties of a .memoryignore that does not compile (SpecIgnore)
\* ------------------------------------------------------------------------
\* C24 as claimed: with a line in .memoryignore that does not compile, a
\* save or a replace returns a ConfigError.
C24_AsClaimed ==
  [][(lastOp'.op \in {"save", "replace"} /\ LoadMemoryIgnore(ignoreFile).err)
       => (~lastOp'.ok /\ lastOp'.action = "ConfigError")]_vars

\* What holds: the load is aborted, so that none of the file's patterns is
\* in use, those before the bad line included; a save then stores its
\* text redacted by the tags and the built-in patterns alone and returns
\* no error.
C24_LoadAbortsAndSaveGoesOn ==
  [][(lastOp'.op = "save" /\ LoadMemoryIgnore(ignoreFile).err) =>
       /\ LoadMemoryIgnore(ignoreFile).patterns = {}
       /\ getIgnorePatterns = {}
       /\ lastOp'.ok
       /\ \E raw \in IgnoreInputs :
            /\ lastOp'.title = Redact(raw.title, {})
            /\ GetMemory(db', lastOp'.id).found
            /\ GetMemory(db', lastOp'.id).row.what = Redact(raw.what, {})
            /\ lastOp'.action = "created" =>
                 GetMemory(db', lastOp'.id).row.why = Redact(raw.why, {})]_vars

\* With the pattern acme on the line before one that does not compile, a
\* save has returned "created" and the stored why still reads acme.
C24_Witness ==
  /\ ignoreFile = <<"acme", BadRegex>>
  /\ lastOp.op = "save" /\ lastOp.ok /\ lastOp.action = "created"
  /\ GetMemory(db, lastOp.id).found
  /\ "acme" \in Range(GetMemory(db, lastOp.id).row.why)

\* ------------------------------------------------------------------------
\* Properties of bulk deletion (SpecFilter)
\* ------------------------------------------------------------------------
\* The memories created at least days days before today that match the
\* project and the category, each only when it is given.
OlderMatching(project, category, days) ==
  {r \in DOMAIN db.memories :
     /\ db.memories[r].created_at <= now - days
     /\ (project = "" \/ db.memories[r].project = project)
     /\ (category = "" \/ db.memories[r].category = category)}

\* C25: delete_by_filter(project, category, older_than_days) removes the
\* memories created before now - older_than_days that match the project
\* and the category (each only when non-empty), with their detail rows,
\* vector rows and index postings; every other memory, detail row and
\* vector row is as before; the count returned is the number removed.
C25_DeleteByFilterExact ==
  \A project \in FilterProjects : \A category \in FilterCategories :
    \A days \in FilterDays :
      LET del == DeleteByFilter(db, project, category, now + 1 - days)
          gone == OlderMatching(project, category, days)
          goneIds == {db.memories[r].id : r \in gone}
      IN /\ del.n = Cardinality(gone)
         /\ DOMAIN del.db.memories = DOMAIN db.memories \ gone
         /\ \A r \in DOMAIN del.db.memories : del.db.memories[r] = db.memories[r]
         /\ DOMAIN del.db.details = DOMAIN db.details \ goneIds
         /\ \A id \in DOMAIN del.db.details : del.db.details[id] = db.details[id]
         /\ DOMAIN del.db.vec.rows = DOMAIN db.vec.rows \ gone
         /\ \A r \in DOMAIN del.db.vec.rows : del.db.vec.rows[r] = db.vec.rows[r]
         /\ \A e \in BagToSet(del.db.fts) : e[1] \notin gone

\* A bulk deletion in project p1 has removed one of two memories and kept
\* a "bug" memory of p1 created today, with its detail and vector rows:
\* only its age has kept it.
C25_Witness ==
  /\ lastOp.op = "delete_by_filter" /\ lastOp.project = "p1" /\ lastOp.n = 1
  /\ now = 1
  /\ db.seq = 2 /\ CountMemories(db) = 1
  /\ \E r \in DOMAIN db.memories :
       /\ db.memories[r].project = "p1"
       /\ db.memories[r].category = "bug"
       /\ db.memories[r].created_at = now
       /\ db.memories[r].id \in DOMAIN db.details
       /\ r \in DOMAIN db.vec.rows

\* ------------------------------------------------------------------------
\* Properties of ids that resolve to nothing (SpecCrud)
\* ------------------------------------------------------------------------
\* The step is a replace or a delete whose id matches no memory.
UnresolvedStep ==
  /\ lastOp'.op \in {"replace", "delete"}
  /\ LikeMatches(db, lastOp'.id) = {}

\* C26: a replace or a delete whose id resolves to no memory changes
\* nothing (memory rows, detail rows, vector rows, index postings, session
\* files, the cached flag); the replace returns NotFound, the delete
\* returns false and no error.
C26_UnresolvedIdChangesNothing ==
  [][UnresolvedStep =>
       /\ db' = db
       /\ files' = files
       /\ vectorsOK' = vectorsOK
       /\ logCount' = logCount
       /\ ~lastOp'.ok
       /\ lastOp'.op = "replace" => lastOp'.action = "NotFound"
       /\ lastOp'.op = "delete" => lastOp'.action = ""]_vars

\* A replace has returned NotFound in a store that holds another memory,
\* after the memory its id named was deleted.
C26_Witness ==
  /\ lastOp.op = "replace" /\ ~lastOp.ok /\ lastOp.action = "NotFound"
  /\ LikeMatches(db, lastOp.id) = {}
  /\ CountMemories(db) >= 1
  /\ CountMemories(db) < db.seq

\* ------------------------------------------------------------------------
\* Properties of score normalisation (SpecSearch)
\* ------------------------------------------------------------------------
NormQueries == {<<"make">>, <<"sql">>}

\* The row sets the two searches hand to normalizeRows for a query.
FtsRowSets == UNION {FTSSearch(db, q, 4, "p1") : q \in NormQueries}
VecRowSets ==
  IF ~HasProvider THEN {}
  ELSE UNION {VectorSearch(db, Embed(q, provider.dim), 4, "p1") : q \in NormQueries}

\* The score num / den lies in [0, 1].
InUnitRange(row) == row.den > 0 /\ 0 <= row.num /\ row.num <= row.den

AllInUnitRange(rows) ==
  \A i \in 1..Len(rows) : InUnitRange(normalizeRows(rows)[i])

\* C27 as claimed: after normalisation every score of a full-text result
\* set and of a vector result set lies in [0, 1].
C27_AsClaimed ==
  \A rows \in FtsRowSets \cup VecRowSets : AllInUnitRange(rows)

\* What holds: every score is divided by the largest score of the set
\* when that is positive and by 1 otherwise, so no normalised score
\* exceeds 1 and a score that was not negative ends in [0, 1]; the scores
\* of full-text rows are positive and end in (0, 1]; a vector row farther
\* than distance 1 keeps a negative score.
C27_DividedByMaximum ==
  /\ \A rows \in FtsRowSets \cup VecRowSets :
       LET n == normalizeRows(rows)
       IN \A i \in 1..Len(rows) :
            /\ n[i].num = rows[i].num
            /\ n[i].den = MaxScore(rows)
            /\ n[i].den >= 1
            /\ \A j \in 1..Len(rows) : rows[j].num > 0 => rows[j].num <= n[i].den
            /\ n[i].num <= n[i].den
            /\ rows[i].num >= 0 => InUnitRange(n[i])
            /\ rows[i].num < 0 => ~InUnitRange(n[i])
  /\ \A rows \in FtsRowSets :
       \A i \in 1..Len(rows) : rows[i].num > 0 /\ InUnitRange(normalizeRows(rows)[i])

\* A search has merged vector rows, and the vector search for its query
\* returns a row farther than distance 1, whose score is negative.
C27_Witness ==
  /\ lastOp.op = "search" /\ lastOp.ok /\ lastOp.vecUsed
  /\ HasProvider
  /\ \E rows \in VectorSearch(db, Embed(lastOp.title, provider.dim), 4, "p1") :
       \E i \in 1..Len(rows) : rows[i].num < 0

\* ------------------------------------------------------------------------
\* Properties of stored tag lists (SpecTags)
\* ------------------------------------------------------------------------
\* No two tags of the list are equal up to case.
DupFree(tags) ==
  \A i \in 1..Len(tags) : \A j \in 1..Len(tags) :
    i < j => Lower(tags[i]) # Lower(tags[j])

TagsOf(d, id) == JsonUnmarshal(GetMemory(d, id).row.tags)

\* C28 as claimed: the tag list of every stored memory is duplicate-free
\* up to case.
C28_AsClaimed ==
  \A r \in DOMAIN db.memories : DupFree(JsonUnmarshal(db.memories[r].tags))

\* What holds: a dedup merge keeps the stored tags in their order and
\* appends, in the order of the input, each input tag that up to case is
\* not yet in the list, so that no appended tag repeats an earlier one and
\* a duplicate-free list stays duplicate-free; a create stores the tags of
\* the input as they came.
C28_MergeKeepsOrder ==
  [][/\ lastOp'.action = "updated" =>
          LET old == TagsOf(db, lastOp'.id)
              new == TagsOf(db', lastOp'.id)
          IN /\ IsPrefixOf(old, new)
             /\ \A j \in (Len(old) + 1)..Len(new) :
                  \A i \in 1..(j - 1) : Lower(new[i]) # Lower(new[j])
             /\ DupFree(old) => DupFree(new)
             /\ \E raw \in TagInputs :
                  /\ RedactRaw(raw).title = lastOp'.title
                  /\ \A k \in 1..Len(raw.tags) :
                       \E i \in 1..Len(new) : Lower(new[i]) = Lower(raw.tags[k])
                  /\ \A j \in (Len(old) + 1)..Len(new) : new[j] \in Range(raw.tags)
     /\ lastOp'.action = "created" =>
          \E raw \in TagInputs : /\ RedactRaw(raw).title = lastOp'.title
                                  /\ TagsOf(db', lastOp'.id) = raw.tags]_vars

\* A merge of the tags Build, ci into the list build has left build, ci.
C28_Witness ==
  /\ lastOp.op = "save" /\ lastOp.action = "updated"
  /\ TagsOf(db, lastOp.id) = <<"build", "ci">>

\* ------------------------------------------------------------------------
\* Properties of mergeTags on its own (SpecMerge)
\* ------------------------------------------------------------------------
\* C29: merging is absorbing: once extra has been merged into existing,
\* merging the same extra into the result gives the result back.
C29_MergeAbsorbs ==
  lastOp.op = "merge_tags" =>
    mergeTags(lastOp.results, lastOp.what) = lastOp.results

\* A merge of two non-empty lists that took one extra tag and left out
\* another whose lower-cased form was there already.
C29_Witness ==
  /\ lastOp.op = "merge_tags"
  /\ lastOp.title # <<>>
  /\ Len(lastOp.what) = 2
  /\ Len(lastOp.results) = Len(lastOp.title) + 1
  /\ \E i \in 1..Len(lastOp.what) :
        /\ lastOp.what[i] \notin {lastOp.results[j] : j \in 1..Len(lastOp.results)}
        /\ Lower(lastOp.what[i]) \in {Lower(lastOp.results[j]) : j \in 1..Len(lastOp.results)}

\* ------------------------------------------------------------------------
\* Properties of the context listing (SpecContext)
\* ------------------------------------------------------------------------
\* A GetContext call with a query and top-up has returned a list.
ToppedUp ==
  /\ lastOp.op = "get_context" /\ lastOp.ok
  /\ lastOp.title # <<>>
  /\ lastOp.topup

NoIdTwice(ids) ==
  \A i \in 1..Len(ids) : \A j \in 1..Len(ids) : i < j => ids[i] # ids[j]

CreatedAt(id) == db.memories[RowidOf(db, id)].created_at

\* C30: for a limit that is a count (0 or more), the list GetContext
\* returns for a non-empty query with top-up starts with the search results
\* in their order; when these are limit or more the list is nothing else;
\* when they are fewer, the list goes on with memories of the project the
\* search did not return, newest first, none left out that is newer than
\* one taken, until the list has limit entries or the project has no more;
\* the list never has more than limit entries and no id twice.
C30_TopUpAppendsRecent ==
  ToppedUp =>
    LET out == lastOp.results
        found == lastOp.what
        limit == lastOp.n
        added == SubSeq(out, Len(found) + 1, Len(out))
        inProject == {db.memories[r].id : r \in ProjectRows(db, lastOp.project)}
        inOut == {out[i] : i \in 1..Len(out)}
    IN /\ Len(found) <= Len(out)
       /\ SubSeq(out, 1, Len(found)) = found
       /\ (Len(found) >= limit => out = found)
       /\ Len(out) <= limit
       /\ NoIdTwice(out)
       /\ inOut \subseteq inProject
       /\ (Len(found) < limit => Len(out) = Min2(limit, Cardinality(inProject)))
       /\ \A i \in 1..Len(added) : \A j \in 1..Len(added) :
            i < j => CreatedAt(added[i]) >= CreatedAt(added[j])
       /\ \A i \in 1..Len(added) : \A id \in inProject \ inOut :
            CreatedAt(id) <= CreatedAt(added[i])

\* A search that found one memory of three, topped up to a limit of two
\* with the newer of the other two, which were written on different days.
C30_Witness ==
  /\ ToppedUp
  /\ lastOp.n = 2
  /\ Len(lastOp.what) = 1
  /\ Len(lastOp.results) = 2
  /\ Cardinality(ProjectRows(db, lastOp.project)) = 3
  /\ \E id \in {db.memories[r].id : r \in ProjectRows(db, lastOp.project)} :
        /\ id \notin {lastOp.results[i] : i \in 1..2}
        /\ CreatedAt(id) < CreatedAt(lastOp.results[2])

\* ------------------------------------------------------------------------
\* Properties of one day's session file (SpecMd)
\* ------------------------------------------------------------------------
H2Lines(body) == {i \in 1..Len(body) : IsH2(body[i])}

HeadingsOnce(body) ==
  \A i \in H2Lines(body) : \A j \in H2Lines(body) : i < j => body[i] # body[j]

HeadingsInOrder(body) ==
  \A i \in H2Lines(body) : \A j \in H2Lines(body) :
    i < j => categoryIndex(HeadingCategory(body[i])) < categoryIndex(HeadingCategory(body[j]))

\* Some "### title" line of the memory lies after the H2 line of its
\* category with no other H2 line between the two.
SectionUnderHeading(body, mem) ==
  \E k \in 1..Len(body) :
    /\ body[k] = <<"###">> \o mem.title
    /\ \E h \in H2Lines(body) :
         /\ h < k
         /\ body[h] = H2Line(mem.category)
         /\ \A x \in H2Lines(body) : ~(h < x /\ x < k)

\* The rows whose section went to the file at path.
RowsOfFile(path) == {r \in DOMAIN db.memories : db.memories[r].file_path = path}

WellFormedFile(path) ==
  /\ HeadingsOnce(files[path].body)
  /\ HeadingsInOrder(files[path].body)
  /\ \A r \in RowsOfFile(path) :
       db.memories[r].category # "" => SectionUnderHeading(files[path].body, db.memories[r])

\* The lines the emitter wrote as category headings follow a blank line;
\* every other line is text of a section.  The text holds a marker when
\* "## " and a category heading's text occur in it.
MarkerInText(body) ==
  LET text == [k \in 1..Len(body) |->
                 IF IsH2(body[k]) /\ k > 1 /\ body[k - 1] = Blank THEN Blank ELSE body[k]]
  IN \E i \in 1..Len(ValidCategories) :
       ContainsMarker(text, CategoryHeadings(ValidCategories[i]))

\* C31 as claimed: after any saves every session file has each category
\* heading at most once, the headings in canonical order, and each
\* categorized memory's section under its own heading.
C31_AsClaimed == \A path \in DOMAIN files : WellFormedFile(path)

\* C31: a session file in which no section's text holds a category
\* heading marker has each category heading at most once, the headings
\* in the order decision, pattern, bug, context, learning, and the section
\* of each categorized memory between its category's heading and the next
\* H2 line.
C31_WellFormedWithoutMarkers ==
  \A path \in DOMAIN files : ~MarkerInText(files[path].body) => WellFormedFile(path)

\* A file without markers that got a heading put before one it had and a
\* section appended under a heading it had.
C31_Witness ==
  \E path \in DOMAIN files :
    /\ ~MarkerInText(files[path].body)
    /\ Cardinality(H2Lines(files[path].body)) = 2
    /\ Cardinality(RowsOfFile(path)) = 3
    /\ \E r \in RowsOfFile(path) : \E q \in RowsOfFile(path) :
         /\ r < q
         /\ db.memories[q].category # ""
         /\ categoryIndex(db.memories[q].category) < categoryIndex(db.memories[r].category)
    /\ \E r \in RowsOfFile(path) : \E q \in RowsOfFile(path) :
         r < q /\ db.memories[q].category = db.memories[r].category

\* ------------------------------------------------------------------------
\* Properties of the persisted title (SpecTitle)
\* ------------------------------------------------------------------------
\* C32 as claimed: the persisted title has at most 60 characters on
\* either surface.
C32_AsClaimed ==
  lastOp.op \in {"tool_save", "cli_save"} => Len(lastOp.what) <= TitleLimit

\* C32: the tool surface persists the redaction of the first 60
\* characters of the title given, so the persisted title has at most 60
\* characters when redaction replaces nothing in them; the command line
\* persists the redaction of the whole title.
C32_CutBeforeRedaction ==
  /\ lastOp.op = "tool_save" =>
       LET cut == SubSeq(lastOp.title, 1, Min2(TitleLimit, Len(lastOp.title)))
       IN /\ lastOp.what = RedactChars(cut, IgnoreChars)
          /\ (RedactChars(cut, IgnoreChars) = cut => Len(lastOp.what) <= TitleLimit)
  /\ lastOp.op = "cli_save" => lastOp.what = RedactChars(lastOp.title, IgnoreChars)

\* A tool save of a title of more than 60 characters that persisted its
\* first 60.
C32_Witness ==
  /\ lastOp.op = "tool_save"
  /\ Len(lastOp.title) > TitleLimit
  /\ Len(lastOp.what) = TitleLimit
  /\ lastOp.what = SubSeq(lastOp.title, 1, TitleLimit)

\* ------------------------------------------------------------------------
\* Properties of the tool surface (SpecTool)
\* ------------------------------------------------------------------------
IsValidCategory(c) == \E i \in 1..Len(ValidCategories) : ValidCategories[i] = c

\* A memory_save or memory_replace call that got past its required
\* argument has ended.
ToolStep ==
  /\ lastOp'.op \in {"memory_save", "memory_replace"}
  /\ lastOp'.action \notin {"project is required", "id is required"}

\* C33: in a store written through the tool surface only, every memory's
\* category is one of decision, pattern, bug, context, learning.  A
\* memory_save given an unknown or empty category does not fail: it
\* returns "created" whenever the same call with category "context" would
\* (always in an empty store; "updated" when the dedup probe finds the
\* title, which leaves the number of memories as it was), and the memory
\* it creates has category "context"; a memory_replace given such a
\* category that finds its id leaves the memory with category "context".
C33_ToolCategoryCoerced ==
  [][ToolStep =>
       /\ \A r \in DOMAIN db'.memories : IsValidCategory(db'.memories[r].category)
       /\ (lastOp'.op = "memory_save" /\ ~IsValidCategory(lastOp'.category)) =>
            /\ lastOp'.ok
            /\ lastOp'.action \in {"created", "updated"}
            /\ (CountMemories(db) = 0 => lastOp'.action = "created")
            /\ (lastOp'.action = "updated" => CountMemories(db') = CountMemories(db))
            /\ (lastOp'.action = "created" =>
                  /\ CountMemories(db') = CountMemories(db) + 1
                  /\ GetMemory(db', lastOp'.id).row.category = "context")
       /\ (lastOp'.op = "memory_replace" /\ lastOp'.ok /\ ~IsValidCategory(lastOp'.category)) =>
            \E r \in LikeMatches(db, lastOp'.id) : db'.memories[r].category = "context"
  ]_vars

\* A memory_save given the category "nonexistent" has returned "created"
\* and the memory is stored as context.
C33_Witness ==
  /\ lastOp.op = "memory_save" /\ lastOp.category = "nonexistent"
  /\ lastOp.ok /\ lastOp.action = "created"
  /\ GetMemory(db, lastOp.id).found
  /\ GetMemory(db, lastOp.id).row.category = "context"

\* ------------------------------------------------------------------------
\* Properties of calls from parallel tasks (SpecPar)
\* ------------------------------------------------------------------------
AllIdle == \A t \in Tasks : tasks[t].pc = "idle"

\* The stored rows of a project that carry a title.
SameTitleRows(d, project, title) ==
  {r \in DOMAIN d.memories : d.memories[r].project = project /\ d.memories[r].title = title}

\* C34 as claimed: once every call has returned, no two memories of a
\* project have the same title and the same what.
C34_AsClaimed ==
  AllIdle =>
    \A r \in DOMAIN db.memories : \A q \in DOMAIN db.memories :
      (/\ r # q
       /\ db.memories[r].project = db.memories[q].project
       /\ db.memories[r].title = db.memories[q].title) => db.memories[r].what # db.memories[q].what

\* C34: a save takes the update path exactly when a memory of its project
\* with its title is stored at the moment its probes run, whatever other
\* calls are in flight, and the update path adds no row; two saves whose
\* probes both run before either insert therefore both create.
C34_DedupAtProbeTime ==
  [][\A t \in Tasks :
       /\ (tasks[t].pc = "idle" /\ tasks'[t].pc \in {"save_read", "save_update"}) =>
            (tasks'[t].pc = "save_update"
               <=> SameTitleRows(db, tasks'[t].project, tasks'[t].r.title) # {})
       /\ (tasks[t].pc = "save_update" /\ tasks'[t].pc # "save_update") =>
            DOMAIN db'.memories \subseteq DOMAIN db.memories
  ]_vars

\* A save is on the update path while the save of the other task is
\* between its probes and its insert.
C34_Witness ==
  \E t \in Tasks : \E u \in Tasks :
    /\ tasks[t].pc = "save_update"
    /\ tasks[u].pc \in {"save_read", "save_write", "save_insert"}
    /\ tasks[t].r.title # tasks[u].r.title

\* The lines of a body that are the "### title" line of a title.
TitleLines(body, title) == {k \in 1..Len(body) : body[k] = <<"###">> \o title}

\* The body of the file at path, empty when there is no file.
BodyAt(path) == IF path \in DOMAIN files THEN files[path].body ELSE <<>>

\* C35 as claimed: once every call has returned, the session file of each
\* stored memory has a "### title" line for it (one per memory when
\* several have the title).
C35_AsClaimed ==
  AllIdle =>
    \A r \in DOMAIN db.memories :
      LET mem == db.memories[r]
      IN Cardinality(TitleLines(BodyAt(mem.file_path), mem.title))
           >= Cardinality({q \in RowsOfFile(mem.file_path) : db.memories[q].title = mem.title})

\* C35: the write of a creating save leaves in the file its own section
\* and every section that was in the file when the save read it, and
\* nothing else: a section another save wrote between that read and this
\* write is lost.
C35_WriteKeepsWhatWasRead ==
  [][\A t \in Tasks :
       (tasks[t].pc = "save_write" /\ tasks'[t].pc = "save_insert") =>
         LET path == <<tasks[t].project, now>>
             was == tasks[t].read.file
             before == IF tasks[t].read.exists THEN was.body ELSE <<>>
         IN /\ path \in DOMAIN files'
            /\ \A title \in {raw.title : raw \in ParInputs} :
                 Cardinality(TitleLines(files'[path].body, title))
                   = Cardinality(TitleLines(before, title))
                     + (IF title = tasks[t].r.title THEN 1 ELSE 0)
  ]_vars

\* A save has written a file that another save had written after the
\* first one read it, and the other save's section is gone.
C35_Witness ==
  /\ AllIdle
  /\ \E r \in DOMAIN db.memories : \E q \in DOMAIN db.memories :
       /\ db.memories[r].title # db.memories[q].title
       /\ db.memories[r].file_path = db.memories[q].file_path
       /\ TitleLines(BodyAt(db.memories[r].file_path), db.memories[r].title) = {}
       /\ TitleLines(BodyAt(db.memories[q].file_path), db.memories[q].title) # {}

\* The row numbers that have a vector row.
VecRowids(d) == IF HasVecTable(d) THEN DOMAIN d.vec.rows ELSE {}

\* The vector rows whose memory is not stored.
OrphanVectors(d) == VecRowids(d) \ DOMAIN d.memories

\* The row number a task is about to hand to InsertVector.
HeldRowid(t) ==
  IF tasks[t].pc = "save_vector" THEN tasks[t].rowid
  ELSE IF tasks[t].pc = "reindex_rows" THEN Head(tasks[t].rows).rowid
  ELSE 0

\* C36 as claimed: once every call has returned, every vector row belongs
\* to a stored memory.
C36_AsClaimed == AllIdle => OrphanVectors(db) = {}

\* C36: a delete leaves no vector row for the memory it deletes, and a
\* vector row without its memory comes into being only by the
\* InsertVector of a save or reindex that obtained the row number before
\* the memory was deleted.
C36_OrphanOnlyByLateInsert ==
  [][/\ VecRowids(db') \cap (DOMAIN db.memories \ DOMAIN db'.memories) = {}
     /\ \A x \in OrphanVectors(db') \ OrphanVectors(db) :
          \E t \in Tasks :
            /\ HeldRowid(t) = x
            /\ tasks'[t] # tasks[t]
            /\ x \notin DOMAIN db.memories
  ]_vars

\* Every call has returned and a vector row is left whose memory a delete
\* removed.
C36_Witness ==
  /\ AllIdle
  /\ OrphanVectors(db) # {}
  /\ lastOp.n = MaxCalls

\* ------------------------------------------------------------------------
\* Properties of the vector of a replaced memory (SpecPrefix)
\* ------------------------------------------------------------------------
\* The text Replace embeds for the row as it is stored in d.
RowText(d, r) ==
  EmbedText(d.memories[r].title, d.memories[r].what, d.memories[r].why,
            d.memories[r].impact, JsonUnmarshal(d.memories[r].tags))

\* The row's vector is the embedding of the row's text.
VectorIsCurrent(d, r) ==
  /\ r \in VecRowids(d)
  /\ d.vec.rows[r] = Embed(RowText(d, r), provider.dim)

\* C37 as claimed: after a successful replace with a provider, the vector
\* of the replaced memory is the embedding of its new text, for a full id
\* and for a prefix.
C37_AsClaimed ==
  [][(ReplaceStep /\ HasProvider) =>
       \A r \in DOMAIN db.memories :
         (r \in DOMAIN db'.memories /\ db'.memories[r] # db.memories[r]) =>
           VectorIsCurrent(db', r)
  ]_vars

\* C37: after a successful replace with a provider, the vector of the
\* replaced memory is the embedding of its new text when the id was given
\* in full; when the id was a proper prefix, reembedMemory's lookup by
\* exact id finds nothing and the memory's vector row is what it was
\* before the replace.
C37_ReembedOnFullIdOnly ==
  [][(ReplaceStep /\ HasProvider) =>
       \A r \in DOMAIN db.memories :
         (r \in DOMAIN db'.memories /\ db'.memories[r] # db.memories[r]) =>
           IF lastOp'.id = db.memories[r].id
           THEN VectorIsCurrent(db', r)
           ELSE /\ (r \in VecRowids(db')) = (r \in VecRowids(db))
                /\ r \in VecRowids(db) => db'.vec.rows[r] = db.vec.rows[r]
  ]_vars

\* A replace by prefix has succeeded with a provider, and the vector of
\* the replaced memory is not the embedding of its text.
C37_Witness ==
  /\ lastOp.op = "replace" /\ lastOp.ok /\ HasProvider
  /\ Len(lastOp.id) = 1
  /\ \E r \in LikeMatches(db, lastOp.id) :
       /\ db.memories[r].title = lastOp.title
       /\ r \in VecRowids(db)
       /\ ~VectorIsCurrent(db, r)

\* ------------------------------------------------------------------------
\* Properties of the section a creating save writes (SpecMd)
\* ------------------------------------------------------------------------
\* The step is a save that returned action=created.
CreatingSave == lastOp'.op = "save" /\ lastOp'.ok /\ lastOp'.action = "created"

\* The memory the last save returned, as stored in d.
SavedRow(d, id) == GetMemory(d, id).row

\* The step added a "### title" line of the created memory to its file.
SectionWritten ==
  LET mem == SavedRow(db', lastOp'.id)
  IN Cardinality(TitleLines(IF mem.file_path \in DOMAIN files'
                            THEN files'[mem.file_path].body ELSE <<>>, mem.title))
       > Cardinality(TitleLines(BodyAt(mem.file_path), mem.title))

\* C38 as claimed: every save that returns action=created adds the
\* memory's "### title" section to the file at the returned path,
\* whatever the file held.
C38_AsClaimed == [][CreatingSave => SectionWritten]_vars

\* C38: a save that returns action=created adds the memory's section to
\* its session file exactly when the file is new, the memory has no
\* category, the text "## <heading>" of its category occurs nowhere in
\* the file, or some line of the file is that heading; when the text
\* occurs only inside other lines (a section title or detail text), the
\* file gets no section for the memory.
C38_SectionWrittenUnlessMarkerOnly ==
  [][CreatingSave =>
       LET mem == SavedRow(db', lastOp'.id)
           body == BodyAt(mem.file_path)
       IN SectionWritten <=>
            \/ mem.file_path \notin DOMAIN files
            \/ mem.category = ""
            \/ ~ContainsMarker(body, CategoryHeadings(mem.category))
            \/ \E k \in 1..Len(body) : body[k] = H2Line(mem.category)
  ]_vars

\* A save has returned action=created and its file, which held the
\* heading text of its category inside another line, has no section for
\* the memory.
C38_Witness ==
  /\ lastOp.op = "save" /\ lastOp.ok /\ lastOp.action = "created"
  /\ LET mem == SavedRow(db, lastOp.id)
     IN /\ mem.category # ""
        /\ TitleLines(BodyAt(mem.file_path), mem.title) = {}
        /\ ContainsMarker(BodyAt(mem.file_path), CategoryHeadings(mem.category))

\* ------------------------------------------------------------------------
\* Properties of id arguments (SpecLike)
\* ------------------------------------------------------------------------
\* The step is a delete, a replace or a get_details that found a memory.
IdStep == lastOp'.op \in {"delete", "replace", "get_details"} /\ lastOp'.ok

\* The ids of the memories the step deleted, overwrote or revealed.
SelectedIds ==
  IF lastOp'.op = "get_details" THEN {lastOp'.results[1]}
  ELSE {db.memories[r].id : r \in {x \in DOMAIN db.memories :
          x \notin DOMAIN db'.memories \/ db'.memories[x] # db.memories[x]}}

\* The argument holds no LIKE wildcard and no upper-case letter.
LiteralId(id) == \A i \in 1..Len(id) : id[i] \notin {"%", "_"} /\ LikeFold(id[i]) = id[i]

\* C39 as claimed: a delete, replace or get_details selects only a memory
\* whose id literally starts with the argument.
C39_AsClaimed ==
  [][IdStep => \A m \in SelectedIds : IsPrefixOf(lastOp'.id, m)]_vars

\* C39: a delete, replace or get_details that finds a memory selects
\* exactly one, whose id matches the LIKE pattern made of the argument
\* followed by %; % and _ in the argument are wildcards and letters match
\* in either case, so only an argument without wildcards and upper-case
\* letters is sure to select a memory whose id literally starts with it.
C39_SelectsByLikePattern ==
  [][IdStep =>
       /\ Cardinality(SelectedIds) = 1
       /\ \A m \in SelectedIds :
            /\ Like(lastOp'.id \o <<"%">>, m)
            /\ LiteralId(lastOp'.id) => IsPrefixOf(lastOp'.id, m)
  ]_vars

\* A delete given "%" has deleted a memory while another is stored: the
\* argument is a prefix of no id.
C39_Witness ==
  /\ lastOp.op = "delete" /\ lastOp.ok
  /\ lastOp.id = <<"%">>
  /\ CountMemories(db) = 1
  /\ db.seq = 2

\* ------------------------------------------------------------------------
\* Properties of clamp (SpecClamp)
\* ------------------------------------------------------------------------
\* C40 as claimed: for a limit of zero or more, clamp returns the smaller
\* of the limit and the row count, so zero for a limit of zero.
C40_AsClaimed ==
  (lastOp.op = "clamp" /\ lastOp.results[1] >= 0) =>
    lastOp.results[3] = Min2(lastOp.results[1], lastOp.results[2])

\* C40: for a limit of one or more, clamp returns the smaller of the
\* limit and the row count; for a limit of zero or less it returns the
\* row count, so a limit of zero selects every row.
C40_ClampIsMinAboveZero ==
  lastOp.op = "clamp" =>
    LET limit == lastOp.results[1]
        n == lastOp.results[2]
    IN /\ limit >= 1 => lastOp.results[3] = Min2(limit, n)
       /\ limit <= 0 => lastOp.results[3] = n
       /\ lastOp.results[3] \in 0..n

\* clamp was called with a limit of zero for five rows, the case of
\* TestClamp_HappyPath, and returned five.
C40_Witness ==
  /\ lastOp.op = "clamp"
  /\ lastOp.results[1] = 0 /\ lastOp.results[2] = 5
  /\ lastOp.results[3] = 5

====
